---- MODULE Spec2Model ----
(***************************************************************************)
(* Model of the graph-expansion and query-construction pipeline of         *)
(* ekg_engine/ekg_core/v2_workflow.py, of the graph cache of               *)
(* ekg_engine/api/main.py, and of the task store of                        *)
(* ekg_engine/api/task_store.py with its background workers.               *)
(*                                                                         *)
(* Specifications:                                                         *)
(*   SpecExpand   expand_nodes, one loop iteration per step                *)
(*   SpecResolve  map_node_names_to_ids on drawn inputs                    *)
(*   SpecQueries  build_kg_guided_queries on drawn inputs                  *)
(*   Spec         v2_hybrid_answer, one pipeline step per action           *)
(*   SpecCache    load_graph_artifacts called from concurrent threads      *)
(*   SpecPost     the post-processing of the answer and its citations      *)
(*   SpecTasks    tasks created, processed by the workers, deleted and     *)
(*                uploaded to GCS, under fair scheduling                   *)
(***************************************************************************)
EXTENDS Integers, Sequences, FiniteSets, TLC

(***************************************************************************)
(* Bounds of the model.                                                    *)
(***************************************************************************)
MaxEdges == 2
MaxHops == 2
MaxBudget == 4

(***************************************************************************)
(* Generic helpers: Python lists are sequences, Python sets are sets whose *)
(* iteration order is any enumeration.                                     *)
(***************************************************************************)
Range(s) == {s[i] : i \in DOMAIN s}

\* every list a Python set S may turn into under list(S)
Perms(S) == {s \in [1..Cardinality(S) -> S] : Range(s) = S}

Min(S) == CHOOSE x \in S : \A y \in S : x <= y
Max(S) == CHOOSE x \in S : \A y \in S : x >= y

RECURSIVE SortedSeq(_, _)
\* the members of a set of integers as a list, ascending or descending
SortedSeq(S, desc) ==
    IF S = {} THEN <<>>
    ELSE LET x == IF desc THEN Max(S) ELSE Min(S)
         IN  <<x>> \o SortedSeq(S \ {x}, desc)

(***************************************************************************)
(* The graph G: a directed multigraph.  An edge is (s, t, k) with its data *)
(* dictionary: type, label, evidence, source_documents; a missing key is   *)
(* Absent.                                                                 *)
(***************************************************************************)
Absent == "<absent>"

GraphNodes == {1, 2, 3}
\* an identifier that is no node of G (a seed may be one)
UnknownId == 0
Ids == GraphNodes \cup {UnknownId}

Edge(s, t, k, d) ==
    [s |-> s, t |-> t, k |-> k, type |-> d.type, label |-> d.label,
     evidence |-> d.evidence, source_documents |-> d.source_documents]

\* the edges a graph of the model is drawn from: a plain typed edge between
\* every ordered pair (self-loops included), and a few edges with the other
\* shapes of data: a parallel edge of the same type carrying evidence, a
\* labelled edge, an edge with neither type nor label
EdgePool ==
    { Edge(s, t, 0, [type |-> "USES", label |-> Absent, evidence |-> Absent,
                     source_documents |-> Absent]) : s \in GraphNodes, t \in GraphNodes }
    \cup
    { Edge(1, 2, 1, [type |-> "USES", label |-> Absent, evidence |-> "ev",
                     source_documents |-> Absent]),
      Edge(2, 1, 0, [type |-> Absent, label |-> "HAS", evidence |-> Absent,
                     source_documents |-> "doc"]),
      Edge(2, 3, 0, [type |-> Absent, label |-> Absent, evidence |-> "ev",
                     source_documents |-> Absent]),
      Edge(3, 1, 1, [type |-> "HAS", label |-> "USES", evidence |-> Absent,
                     source_documents |-> Absent]) }

\* keys are unique among the edges of one ordered pair
WellKeyed(Gr) ==
    \A e1 \in Gr, e2 \in Gr : (e1.s = e2.s /\ e1.t = e2.t /\ e1.k = e2.k) => e1 = e2

Graphs == {Gr \in SUBSET EdgePool : Cardinality(Gr) <= MaxEdges /\ WellKeyed(Gr)}

SeedLists == UNION {[1..n -> Ids] : n \in 0..2}

Whitelists == {{}, {"USES"}}

(***************************************************************************)
(* expand_nodes                                                            *)
(***************************************************************************)
\* et = edata.get("type") or edata.get("label") or "RELATED"
EdgeType(edata) ==
    IF edata.type # Absent THEN edata.type
    ELSE IF edata.label # Absent THEN edata.label
    ELSE "RELATED"

\* mutation of ok_edge: the allow-list is not consulted
ok_edge_any_type(edata, edge_type_whitelist) == TRUE

ok_edge(edata, edge_type_whitelist) ==
    IF edge_type_whitelist = {} THEN TRUE
    ELSE EdgeType(edata) \in edge_type_whitelist

\* the record appended to edges for one graph edge
EdgeRecord(e) ==
    [source_id |-> e.s, target_id |-> e.t, type |-> EdgeType(e),
     evidence |-> e.evidence, source_documents |-> e.source_documents]

RECURSIVE KeySorted(_)
\* G[u][v].items(): the parallel edges of one pair in key order
KeySorted(es) ==
    IF es = {} THEN <<>>
    ELSE LET e == CHOOSE x \in es : \A y \in es : x.k <= y.k
         IN  <<e>> \o KeySorted(es \ {e})

RECURSIVE MapRecords(_)
MapRecords(es) ==
    IF es = <<>> THEN <<>> ELSE <<EdgeRecord(Head(es))>> \o MapRecords(Tail(es))

\* mutation of Predecessors: incoming edges are not followed
PredecessorsNotFollowed(Gr, u, desc) == <<>>

\* for v in G[u]  /  for v in G.predecessors(u): iteration order of the adjacency
Successors(Gr, u, desc) == SortedSeq({e.t : e \in {x \in Gr : x.s = u}}, desc)
Predecessors(Gr, u, desc) == SortedSeq({e.s : e \in {x \in Gr : x.t = u}}, desc)

\* mutation of MayEnqueue: a node already seen is enqueued again
MayEnqueueSeenAgain(v, d, hops, seen) == d < hops

\* mutation of MayEnqueue: the hop test off by one
MayEnqueueHopsOffByOne(v, d, hops, seen) == v \notin seen /\ d <= hops

\* the enqueue test of both inner loops: v not in seen and d < hops
MayEnqueue(v, d, hops, seen) == v \notin seen /\ d < hops

RECURSIVE Visit(_, _, _, _, _, _, _, _)
\* one of the two inner loops of expand_nodes over the neighbours vs of u:
\* out = TRUE follows G[u][v], out = FALSE follows G[v][u]
Visit(Gr, hops, wl, vs, u, d, out, st) ==
    IF vs = <<>> THEN st
    ELSE LET v == Head(vs)
             between == IF out THEN {e \in Gr : e.s = u /\ e.t = v}
                        ELSE {e \in Gr : e.s = v /\ e.t = u}
             emitted == MapRecords(SelectSeq(KeySorted(between), LAMBDA e : ok_edge(e, wl)))
             st1 == [st EXCEPT !.edges = @ \o emitted]
             st2 == IF MayEnqueue(v, d, hops, st1.seen)
                    THEN [st1 EXCEPT !.seen = @ \cup {v}, !.q = Append(@, <<v, d + 1>>)]
                    ELSE st1
         IN  Visit(Gr, hops, wl, Tail(vs), u, d, out, st2)

\* the state before the loop: seen = set(seed_ids), q = deque of (seed, 0)
ExpandInit(seed_ids) ==
    [seen |-> Range(seed_ids),
     q |-> [i \in DOMAIN seed_ids |-> <<seed_ids[i], 0>>],
     edges |-> <<>>]

\* while q and len(seen) < max_expanded
LoopGuard(st, max_expanded) ==
    st.q # <<>> /\ Cardinality(st.seen) < max_expanded

\* one iteration of the while loop
ExpandStep(Gr, hops, wl, desc, st) ==
    LET u == st.q[1][1]
        d == st.q[1][2]
        st0 == [st EXCEPT !.q = Tail(@)]
    IN  IF u \notin GraphNodes THEN st0
        ELSE Visit(Gr, hops, wl, Predecessors(Gr, u, desc), u, d, FALSE,
                   Visit(Gr, hops, wl, Successors(Gr, u, desc), u, d, TRUE, st0))

RECURSIVE ExpandRun(_, _, _, _, _, _)
\* the whole while loop
ExpandRun(Gr, hops, wl, max_expanded, desc, st) ==
    IF LoopGuard(st, max_expanded)
    THEN ExpandRun(Gr, hops, wl, max_expanded, desc, ExpandStep(Gr, hops, wl, desc, st))
    ELSE st

\* mutation of DedupEdges: the whole records are kept, not the triples
DedupEdgesWholeRecords(edgeList) == Range(edgeList)

\* edges = list(set((source_id, target_id, type)))
DedupEdges(edgeList) ==
    {[source_id |-> e.source_id, target_id |-> e.target_id, type |-> e.type] :
        e \in Range(edgeList)}

(***************************************************************************)
(* Strings are sequences of characters.  NoStr stands for a missing key    *)
(* (or None) where a string is expected.                                   *)
(***************************************************************************)
NoStr == <<Absent>>

\* Python truthiness of an optional string
Truthy(s) == s # NoStr /\ s # <<>>

\* an element of a string is a character or, for an edge type, the whole
\* type word (no name of the model shares a letter with one)
LowerChar(c) ==
    CASE c = "A" -> "a"
      [] c = "B" -> "b"
      [] c = "USES" -> "uses"
      [] c = "HAS" -> "has"
      [] c = "RELATED" -> "related"
      [] c = "Sources" -> "sources"
      [] c = "Doc.pdf" -> "doc.pdf"
      [] c = "Not enough information available" -> "not enough information available"
      [] OTHER -> c

\* str.lower()
lower(s) == [i \in DOMAIN s |-> LowerChar(s[i])]

IsSpace(c) == c \in {" ", "\n"}

RECURSIVE lstrip(_)
lstrip(s) == IF s # <<>> /\ IsSpace(Head(s)) THEN lstrip(Tail(s)) ELSE s

RECURSIVE rstrip(_)
rstrip(s) ==
    IF s # <<>> /\ IsSpace(s[Len(s)]) THEN rstrip(SubSeq(s, 1, Len(s) - 1)) ELSE s

\* str.strip()
strip(s) == rstrip(lstrip(s))

\* Python's  a in b  on strings
IsSubstring(a, b) ==
    \E i \in 0..(Len(b) - Len(a)) : SubSeq(b, i + 1, i + Len(a)) = a

RECURSIVE CollapseSpaces(_)
\* re.sub(r"\s+", " ", s)
CollapseSpaces(s) ==
    IF s = <<>> THEN <<>>
    ELSE IF IsSpace(Head(s))
         THEN <<" ">> \o CollapseSpaces(lstrip(s))
         ELSE <<Head(s)>> \o CollapseSpaces(Tail(s))

\* _norm
norm(s) == CollapseSpaces(lower(strip(IF s = NoStr THEN <<>> ELSE s)))

\* str(node_id)
StrId(id) == <<ToString(id)>>

(***************************************************************************)
(* The node table by_id: a list of [id, data] in the dictionary's          *)
(* iteration order; data holds the keys name, node_name, label.            *)
(***************************************************************************)
MaxNodes == 2

NamePool ==
    { <<"a">>, <<"A">>, <<"a", "b">>, <<"b">>, <<"a", " ", "b">>,
      <<"a", " ", " ", "b">>, <<" ", "a">> }

\* node data with the keys name, node_name, label; node_type and type are missing
NodeData(name, node_name, label) ==
    [name |-> name, node_name |-> node_name, label |-> label,
     node_type |-> NoStr, type |-> NoStr]

NodeDataPool ==
    { NodeData(n, NoStr, NoStr) : n \in NamePool }
    \cup
    { NodeData(NoStr, <<"b">>, <<"a">>),
      NodeData(<<>>, NoStr, <<"A", "b">>),
      NodeData(NoStr, NoStr, NoStr) }

NodeTables ==
    UNION { {t \in [1..n -> {[id |-> i, data |-> d] : i \in GraphNodes, d \in NodeDataPool}] :
                \A i \in 1..n, j \in 1..n : t[i].id = t[j].id => i = j} : n \in 0..MaxNodes }

CandidatePool == NamePool \cup { <<>>, <<"1">> }

CandidateLists == UNION {[1..n -> CandidatePool] : n \in 0..2}

TableIds(table) == {table[i].id : i \in DOMAIN table}

\* by_id[node_id]
DataOf(table, id) == (CHOOSE e \in Range(table) : e.id = id).data

(***************************************************************************)
(* map_node_names_to_ids                                                   *)
(***************************************************************************)
\* node_data.get('name') or node_data.get('node_name') or node_data.get('label')
\* or str(node_id)
ActualName(e) ==
    IF Truthy(e.data.name) THEN e.data.name
    ELSE IF Truthy(e.data.node_name) THEN e.data.node_name
    ELSE IF Truthy(e.data.label) THEN e.data.label
    ELSE StrId(e.id)

\* the match test of the fallback scan
NameMatches(node_name_lower, actual_name) ==
    \/ node_name_lower = actual_name
    \/ IsSubstring(node_name_lower, actual_name)
    \/ IsSubstring(actual_name, node_name_lower)

RECURSIVE ScanByIdOrUnknown(_, _)
\* mutation of ScanById: a name that matches no entry yields an identifier
ScanByIdOrUnknown(table, node_name_lower) ==
    IF table = <<>> THEN <<UnknownId>>
    ELSE IF NameMatches(node_name_lower, strip(lower(ActualName(Head(table)))))
         THEN <<Head(table).id>>
         ELSE ScanByIdOrUnknown(Tail(table), node_name_lower)

RECURSIVE ScanById(_, _)
\* Strategy 2: the first entry of by_id that matches, as a list of one id
ScanById(table, node_name_lower) ==
    IF table = <<>> THEN <<>>
    ELSE IF NameMatches(node_name_lower, strip(lower(ActualName(Head(table)))))
         THEN <<Head(table).id>>
         ELSE ScanById(Tail(table), node_name_lower)

\* the identifiers one candidate name contributes to node_ids
ResolveOne(node_name, table, index) ==
    LET node_name_lower == strip(lower(node_name))
        hit == {x \in index : x.key = node_name_lower}
    IN  IF index # {} /\ hit # {}
        THEN (CHOOSE x \in hit : TRUE).ids
        ELSE ScanById(table, node_name_lower)

RECURSIVE NodeIdList(_, _, _)
\* node_ids after the loop over node_names
NodeIdList(names, table, index) ==
    IF names = <<>> THEN <<>>
    ELSE ResolveOne(Head(names), table, index) \o NodeIdList(Tail(names), table, index)

\* set(node_ids); the returned list is any enumeration of it
map_node_names_to_ids(names, table, index) == Range(NodeIdList(names, table, index))

\* the name index the loader builds: normalized display name -> identifiers
BuildNameIndex(table) ==
    { [key |-> k, ids |-> SortedSeq({e.id : e \in {x \in Range(table) : norm(ActualName(x)) = k}}, FALSE)] :
        k \in {norm(ActualName(e)) : e \in Range(table)} }

(***************************************************************************)
(* JSON values of the payloads: a string, null, a number, a list, or a     *)
(* missing key.                                                            *)
(***************************************************************************)
JStr(str) == [t |-> "str", s |-> str, l |-> <<>>]
JNull == [t |-> "null", s |-> <<>>, l |-> <<>>]
\* a number other than 0
JNum == [t |-> "num", s |-> <<>>, l |-> <<>>]
JList(items) == [t |-> "list", s |-> <<>>, l |-> items]
JAbsent == [t |-> "absent", s |-> <<>>, l |-> <<>>]

\* Python truthiness of dict.get(key)
JTruthy(v) ==
    CASE v.t = "str" -> v.s # <<>>
      [] v.t = "list" -> v.l # <<>>
      [] v.t = "num" -> TRUE
      [] OTHER -> FALSE

\* dict.get(key, default)
JGet(v, default) == IF v.t = "absent" THEN default ELSE v

(***************************************************************************)
(* build_kg_guided_queries                                                 *)
(***************************************************************************)
EntityNodeWindow == 8
EntityQueryCap == 5
EdgeQueryWindow == 10

\* s[:n]
SliceTo(s, n) ==
    LET m == IF n >= 0 THEN n ELSE Len(s) + n
    IN  SubSeq(s, 1, IF m < 0 THEN 0 ELSE IF m > Len(s) THEN Len(s) ELSE m)

\* by_id[node_id].get('name', by_id[node_id].get('node_name', str(node_id)))
QueryName(table, id) ==
    LET d == DataOf(table, id)
    IN  IF d.name # NoStr THEN d.name
        ELSE IF d.node_name # NoStr THEN d.node_name
        ELSE StrId(id)

RECURSIVE NamesOf(_, _)
\* the names of the identifiers of a list that are keys of by_id
NamesOf(ids, table) ==
    IF ids = <<>> THEN <<>>
    ELSE (IF Head(ids) \in TableIds(table) THEN <<QueryName(table, Head(ids))>> ELSE <<>>)
         \o NamesOf(Tail(ids), table)

\* mutation of QuestionQueries: the reformulations are not queries
QuestionQueriesAlone(question, analysis) == <<question>>

\* mutation of QuestionQueries: the original question is not a query
QuestionQueriesNoOriginal(question, analysis) ==
    (IF JTruthy(analysis.stepback_question) THEN <<analysis.stepback_question.s>> ELSE <<>>)
    \o (IF JTruthy(analysis.expanded_question) THEN <<analysis.expanded_question.s>> ELSE <<>>)

\* 1.-2. the original question and the reformulations of the analysis
QuestionQueries(question, analysis) ==
    <<question>>
    \o (IF JTruthy(analysis.stepback_question) THEN <<analysis.stepback_question.s>> ELSE <<>>)
    \o (IF JTruthy(analysis.expanded_question) THEN <<analysis.expanded_question.s>> ELSE <<>>)

\* 3. entity-focused queries
EntityQueries(question, expanded_node_ids, table) ==
    LET ents == SliceTo(NamesOf(SliceTo(expanded_node_ids, EntityNodeWindow), table), EntityQueryCap)
    IN  [i \in DOMAIN ents |-> question \o <<" ">> \o ents[i]]

\* node_lookup.get(id, "")
LookupName(expanded_node_ids, table, id) ==
    IF id \in Range(expanded_node_ids) /\ id \in TableIds(table) THEN QueryName(table, id) ELSE <<>>

RECURSIVE EdgeQueries(_, _, _)
\* 4. relationship-focused queries of a list of edges
EdgeQueries(es, expanded_node_ids, table) ==
    IF es = <<>> THEN <<>>
    ELSE LET source_name == LookupName(expanded_node_ids, table, Head(es).source_id)
             target_name == LookupName(expanded_node_ids, table, Head(es).target_id)
         IN  (IF source_name # <<>> /\ target_name # <<>>
              THEN <<source_name \o <<" ", Head(es).type, " ">> \o target_name>>
              ELSE <<>>)
             \o EdgeQueries(Tail(es), expanded_node_ids, table)

\* mutation of AllQueries: the entity-focused queries come first
AllQueriesEntitiesFirst(question, kg, table) ==
    EntityQueries(question, kg.expanded_node_ids, table)
    \o QuestionQueries(question, kg.question_analysis)
    \o EdgeQueries(SliceTo(kg.edges, EdgeQueryWindow), kg.expanded_node_ids, table)

\* queries before deduplication
AllQueries(question, kg, table) ==
    QuestionQueries(question, kg.question_analysis)
    \o EntityQueries(question, kg.expanded_node_ids, table)
    \o EdgeQueries(SliceTo(kg.edges, EdgeQueryWindow), kg.expanded_node_ids, table)

RECURSIVE DedupLower(_, _)
\* 5. keep the first of the queries equal under lower()
DedupLower(queries, seen) ==
    IF queries = <<>> THEN <<>>
    ELSE IF lower(Head(queries)) \in seen THEN DedupLower(Tail(queries), seen)
         ELSE <<Head(queries)>> \o DedupLower(Tail(queries), seen \cup {lower(Head(queries))})

\* q.lower() raises AttributeError on a query that is no string
QueriesRaise(analysis) ==
    \/ JTruthy(analysis.stepback_question) /\ analysis.stepback_question.t # "str"
    \/ JTruthy(analysis.expanded_question) /\ analysis.expanded_question.t # "str"

\* mutation of build_kg_guided_queries: the truncation is left out
build_kg_guided_queries_uncut(question, kg, table, max_queries) ==
    DedupLower(AllQueries(question, kg, table), {})

build_kg_guided_queries(question, kg, table, max_queries) ==
    SliceTo(DedupLower(AllQueries(question, kg, table), {}), max_queries)

\* mutation of DefaultAnalysis: the question is given as a node name
DefaultAnalysisWithNames(question) ==
    [stepback_question |-> JStr(question), expanded_question |-> JStr(question),
     entities |-> JList(<<>>), node_names |-> JList(<<JStr(question)>>)]

\* the analysis get_relevant_nodes returns when the discovery call fails
DefaultAnalysis(question) ==
    [stepback_question |-> JStr(question), expanded_question |-> JStr(question),
     entities |-> JList(<<>>), node_names |-> JList(<<>>)]

\* the analysis of an empty dictionary
EmptyAnalysis ==
    [stepback_question |-> JAbsent, expanded_question |-> JAbsent,
     entities |-> JAbsent, node_names |-> JAbsent]

EmptyKg(analysis) ==
    [question_analysis |-> analysis, seed_node_ids |-> <<>>,
     expanded_node_ids |-> <<>>, edges |-> <<>>]

(***************************************************************************)
(* Texts of the external service and parse_llm_json.  A text is a string   *)
(* whose elements are characters, the code-fence markers, a control        *)
(* character, words, and the serialisation of a JSON document as one       *)
(* element; Documents names the documents of the model.                    *)
(***************************************************************************)
\* the marker of a json code fence and of a plain code fence (three backquotes)
FenceJson == "<fence>json"
Fence == "<fence>"
Ctrl == "<control character>"

DiscoveryDocs ==
    {"{}", "[1]", "{d:ok}", "{d:miss}", "{d:null stepback}", "{d:null names}",
     "{d:names [null]}", "{d:names str}", "{d:num expanded}", "{d:list stepback}",
     "{d:one}"}

GenerationDocs ==
    {"{}", "[1]", "{g:full}", "{g:sentinel}", "{g:null answer}", "{g:num answer}",
     "{g:no answer}", "{g:has sources}", "{g:list answer}", "{g:no citations}"}

Documents == DiscoveryDocs \cup GenerationDocs

\* s.startswith(marker), s.endswith(marker) for the fence markers
StartsWithFenceJson(text) == text # <<>> /\ Head(text) = FenceJson
StartsWithFence(text) == text # <<>> /\ Head(text) \in {Fence, FenceJson}
EndsWithFence(text) == text # <<>> /\ text[Len(text)] = Fence

\* cleaned_text[3:] of a text that starts with a fence
DropFence(text) ==
    IF Head(text) = Fence THEN Tail(text) ELSE <<"json">> \o Tail(text)

\* the text after the three fence tests of parse_llm_json
CleanFences(text) ==
    LET c0 == strip(text)
        c1 == IF StartsWithFenceJson(c0) THEN strip(Tail(c0)) ELSE c0
        c2 == IF StartsWithFence(c1) THEN strip(DropFence(c1)) ELSE c1
    IN  IF EndsWithFence(c2) THEN strip(SubSeq(c2, 1, Len(c2) - 1)) ELSE c2

\* json.loads: the document, or "" for JSONDecodeError (surrounding JSON
\* whitespace is accepted)
JsonLoads(text) ==
    LET c == strip(text)
    IN  IF Len(c) = 1 /\ c[1] \in Documents THEN c[1] ELSE ""

\* re.sub of the control characters (newline included) by nothing
RemoveControl(text) == SelectSeq(text, LAMBDA c : c \notin {Ctrl, "\n"})

\* mutation of parse_llm_json: the second attempt after the clean-up is left out
parse_llm_json_no_cleanup(text) ==
    IF JsonLoads(CleanFences(text)) # "" THEN JsonLoads(CleanFences(text)) ELSE "{}"

\* parse_llm_json: the parsed document; "{}" when both attempts fail
parse_llm_json(text) ==
    LET cleaned_text == CleanFences(text)
        stage1 == JsonLoads(cleaned_text)
        stage2 == JsonLoads(RemoveControl(cleaned_text))
    IN  IF stage1 # "" THEN stage1
        ELSE IF stage2 # "" THEN stage2
        ELSE "{}"

\* is a parsed document a dictionary (has .get)
IsDict(doc) == doc # "[1]"

(***************************************************************************)
(* Citations: _normalize_citations, _extract_citations_from_response,      *)
(* _has_sources_section, _append_sources_section                           *)
(***************************************************************************)
\* an item of a raw citation list: a dictionary, a plain string, or another value
CiteDict(id, source) == [kind |-> "dict", id |-> id, source |-> source]
CiteStr(source) == [kind |-> "str", id |-> <<>>, source |-> source]
CiteOther == [kind |-> "other", id |-> <<>>, source |-> <<>>]

\* a raw citations value: a list of items, or no list
RawList(items) == [t |-> "list", items |-> items]
RawNotList == [t |-> "null", items |-> <<>>]

RECURSIVE NormalizeFromCaseSensitive(_, _, _)
\* mutation of NormalizeFrom: the key is the source, not the lowered source
NormalizeFromCaseSensitive(items, normalized, seen_sources) ==
    IF items = <<>> THEN normalized
    ELSE LET item == Head(items)
             source == strip(item.source)
             cid == strip(item.id)
         IN  IF item.kind = "other" \/ source = <<>> \/ source \in seen_sources
             THEN NormalizeFromCaseSensitive(Tail(items), normalized, seen_sources)
             ELSE NormalizeFromCaseSensitive(Tail(items),
                      Append(normalized,
                             [id |-> IF cid # <<>> THEN cid ELSE StrId(Len(normalized) + 1),
                              source |-> source]),
                      seen_sources \cup {source})

RECURSIVE NormalizeFrom(_, _, _)
\* the loop of _normalize_citations over the remaining items
NormalizeFrom(items, normalized, seen_sources) ==
    IF items = <<>> THEN normalized
    ELSE LET item == Head(items)
             source == strip(item.source)
             cid == strip(item.id)
             key == lower(source)
         IN  IF item.kind = "other" \/ source = <<>> \/ key \in seen_sources
             THEN NormalizeFrom(Tail(items), normalized, seen_sources)
             ELSE NormalizeFrom(Tail(items),
                      Append(normalized,
                             [id |-> IF cid # <<>> THEN cid ELSE StrId(Len(normalized) + 1),
                              source |-> source]),
                      seen_sources \cup {key})

normalize_citations(raw_citations) ==
    IF raw_citations.t # "list" THEN <<>>
    ELSE NormalizeFrom(raw_citations.items, <<>>, {})

RECURSIVE ExtractFrom(_, _, _)
\* the loop of _extract_citations_from_response over the annotations' sources
ExtractFrom(sources, citations, seen_sources) ==
    IF sources = <<>> THEN citations
    ELSE LET source == strip(Head(sources))
         IN  IF source = <<>> \/ lower(source) \in seen_sources
             THEN ExtractFrom(Tail(sources), citations, seen_sources)
             ELSE ExtractFrom(Tail(sources),
                      Append(citations, [id |-> StrId(Len(citations) + 1), source |-> source]),
                      seen_sources \cup {lower(source)})

extract_citations_from_response(annotations) == ExtractFrom(annotations, <<>>, {})

\* the positions a run of whitespace that starts at i may end before
AfterSpaces(text, i) ==
    {j \in i..(Len(text) + 1) : \A k \in i..(j - 1) : IsSpace(text[k])}

AtLineStart(text, i) == i = 1 \/ text[i - 1] = "\n"
AtLineEnd(text, i) == i = Len(text) + 1 \/ text[i] = "\n"
IsHashes(c) == c \in {"#", "##", "###", "####", "#####", "######"}
IsWord(text, i, w) == i <= Len(text) /\ LowerChar(text[i]) = w

\* the positions after  sources(?:\s+by\s+file)?  matched from position i
AfterSourcesWord(text, i) ==
    IF ~IsWord(text, i, "sources") THEN {}
    ELSE {i + 1} \cup
         {m + 1 : m \in {n \in 1..Len(text) :
              /\ IsWord(text, n, "file")
              /\ \E j \in AfterSpaces(text, i + 1) \ {i + 1} :
                    /\ IsWord(text, j, "by")
                    /\ n \in AfterSpaces(text, j + 1) \ {j + 1}}}

\* _has_sources_section: some line is a Sources heading
has_sources_section(answer_text) ==
    \E i \in 1..Len(answer_text) :
        /\ AtLineStart(answer_text, i)
        /\ \E j \in AfterSpaces(answer_text, i) :
              \/ /\ j <= Len(answer_text)
                 /\ IsHashes(answer_text[j])
                 /\ \E k \in AfterSpaces(answer_text, j + 1) \ {j + 1} :
                       \E m \in AfterSourcesWord(answer_text, k) :
                          \E e \in AfterSpaces(answer_text, m) : AtLineEnd(answer_text, e)
              \/ \E m \in AfterSourcesWord(answer_text, j) :
                    \E c \in AfterSpaces(answer_text, m) :
                       \E c2 \in {c} \cup (IF c <= Len(answer_text) /\ answer_text[c] = ":"
                                           THEN {c + 1} ELSE {}) :
                          \E e \in AfterSpaces(answer_text, c2) : AtLineEnd(answer_text, e)

Sentinel == <<"not enough information available">>

RECURSIVE SourceLines(_)
\* "\n".join(f"[{c['id']}] {c['source']}") preceded by a newline each
SourceLines(citations) ==
    IF citations = <<>> THEN <<>>
    ELSE <<"\n", "[">> \o Head(citations).id \o <<"]", " ">> \o Head(citations).source
         \o SourceLines(Tail(citations))

\* mutation of append_sources_section: the sentinel is compared as it is
append_sources_section_exact_sentinel(answer_text, citations) ==
    IF citations = <<>> THEN answer_text
    ELSE IF answer_text = <<>> \/ answer_text = Sentinel THEN answer_text
    ELSE IF has_sources_section(answer_text) THEN answer_text
    ELSE rstrip(answer_text) \o <<"\n", "\n", "###", " ", "Sources">> \o SourceLines(citations)

\* _append_sources_section on an answer that is a string
append_sources_section(answer_text, citations) ==
    IF citations = <<>> THEN answer_text
    ELSE IF answer_text = <<>> \/ lower(strip(answer_text)) = Sentinel THEN answer_text
    ELSE IF has_sources_section(answer_text) THEN answer_text
    ELSE rstrip(answer_text) \o <<"\n", "\n", "###", " ", "Sources">> \o SourceLines(citations)

(***************************************************************************)
(* generate_kg_text                                                        *)
(***************************************************************************)
KgMaxNodes == 40
KgMaxEdges == 50

\* by_id[node_id].get('node_type', by_id[node_id].get('type', 'Entity'))
KgNodeType(table, id) ==
    LET d == DataOf(table, id)
    IN  IF d.node_type # NoStr THEN d.node_type
        ELSE IF d.type # NoStr THEN d.type
        ELSE <<"Entity">>

RECURSIVE NodeLines(_, _)
\* nodes_summary: a line "name (type)" for each listed identifier that is in by_id
NodeLines(ids, table) ==
    IF ids = <<>> THEN <<>>
    ELSE (IF Head(ids) \in TableIds(table)
          THEN <<QueryName(table, Head(ids)) \o <<" ", "(">> \o KgNodeType(table, Head(ids)) \o <<")">>>>
          ELSE <<>>)
         \o NodeLines(Tail(ids), table)

\* node_lookup.get(id, "?")
KgLookupName(expanded_node_ids, table, id) ==
    IF id \in Range(expanded_node_ids) /\ id \in TableIds(table) THEN QueryName(table, id) ELSE <<"?">>

\* edges_summary: a line "source --[type]-> target" for each listed edge
EdgeLines(es, expanded_node_ids, table) ==
    [i \in DOMAIN es |->
        KgLookupName(expanded_node_ids, table, es[i].source_id)
        \o <<" ", "--[", es[i].type, "]->", " ">>
        \o KgLookupName(expanded_node_ids, table, es[i].target_id)]

\* the two lists of lines the framing text of generate_kg_text is filled with
generate_kg_text(kg, table, max_nodes, max_edges) ==
    [nodes_summary |-> NodeLines(SliceTo(kg.expanded_node_ids, max_nodes), table),
     edges_summary |-> EdgeLines(SliceTo(kg.edges, max_edges), kg.expanded_node_ids, table)]

(***************************************************************************)
(* The payloads of the model.                                              *)
(***************************************************************************)
Analysis(stepback, expanded, entities, names) ==
    [stepback_question |-> stepback, expanded_question |-> expanded,
     entities |-> entities, node_names |-> names]

\* the dictionary a discovery document parses to
DiscoveryDoc(doc) ==
    CASE doc = "{d:ok}" ->
            Analysis(JStr(<<"A">>), JStr(<<"a", " ", "b">>), JList(<<JStr(<<"e">>)>>),
                     JList(<<JStr(<<"a">>), JStr(<<"b">>)>>))
      [] doc = "{d:one}" ->
            Analysis(JStr(<<"b">>), JAbsent, JList(<<>>), JList(<<JStr(<<"A">>)>>))
      [] doc = "{d:miss}" ->
            Analysis(JStr(<<"b">>), JStr(<<>>), JAbsent, JList(<<JStr(<<"z">>)>>))
      [] doc = "{d:null stepback}" ->
            Analysis(JNull, JStr(<<"b">>), JList(<<>>), JList(<<JStr(<<"a">>)>>))
      [] doc = "{d:null names}" ->
            Analysis(JStr(<<"b">>), JStr(<<"b">>), JList(<<>>), JNull)
      [] doc = "{d:names [null]}" ->
            Analysis(JStr(<<"b">>), JStr(<<"b">>), JList(<<>>), JList(<<JStr(<<"a">>), JNull>>))
      [] doc = "{d:names str}" ->
            Analysis(JAbsent, JNull, JStr(<<"e">>), JStr(<<"a", "b">>))
      [] doc = "{d:num expanded}" ->
            Analysis(JStr(<<"b">>), JNum, JList(<<>>), JList(<<JStr(<<"a">>)>>))
      [] doc = "{d:list stepback}" ->
            Analysis(JList(<<JStr(<<"b">>)>>), JAbsent, JList(<<>>), JList(<<>>))
      [] OTHER -> EmptyAnalysis

DiscoveryTexts ==
    { <<d>> : d \in DiscoveryDocs }
    \cup
    { <<FenceJson, "\n", "{d:ok}", "\n", Fence>>,
      <<Fence, "{d:one}", Fence>>,
      <<Ctrl, "{d:ok}">>,
      <<"junk">>,
      <<>> }

Answer(answer, stepback, expanded, entities, citations) ==
    [answer |-> answer, stepback_intent |-> stepback, expanded_question |-> expanded,
     business_entities |-> entities, citations |-> citations]

\* the dictionary a generation document parses to
GenerationDoc(doc) ==
    CASE doc = "{g:full}" ->
            Answer(JStr(<<"ans", " ", "[", "1", "]", "\n">>), JStr(<<"S">>), JStr(<<"E">>),
                   JList(<<JStr(<<"e">>)>>),
                   RawList(<<CiteDict(<<"1">>, <<"Doc.pdf">>), CiteDict(<<"2">>, <<"doc.pdf">>),
                             CiteStr(<<"b">>)>>))
      [] doc = "{g:sentinel}" ->
            Answer(JStr(<<" ", "Not enough information available">>), JStr(<<>>), JAbsent, JAbsent,
                   RawList(<<CiteStr(<<"Doc.pdf">>)>>))
      [] doc = "{g:null answer}" ->
            Answer(JNull, JStr(<<"S">>), JStr(<<"E">>), JList(<<>>),
                   RawList(<<CiteStr(<<"Doc.pdf">>)>>))
      [] doc = "{g:num answer}" ->
            Answer(JNum, JAbsent, JAbsent, JAbsent, RawList(<<>>))
      [] doc = "{g:list answer}" ->
            Answer(JList(<<JStr(<<"ans">>)>>), JAbsent, JAbsent, JAbsent,
                   RawList(<<CiteStr(<<"Doc.pdf">>)>>))
      [] doc = "{g:no answer}" ->
            Answer(JAbsent, JStr(<<"S">>), JNull, JList(<<JStr(<<"e">>)>>),
                   RawList(<<CiteDict(<<>>, <<"b">>), CiteOther, CiteDict(<<"1">>, <<"Doc.pdf">>)>>))
      [] doc = "{g:has sources}" ->
            Answer(JStr(<<"ans", "\n", "##", " ", "Sources", "\n", "[", "1", "]", " ", "Doc.pdf">>),
                   JStr(<<"S">>), JStr(<<"E">>), JAbsent,
                   RawList(<<CiteDict(<<"1">>, <<"Doc.pdf">>)>>))
      [] doc = "{g:no citations}" ->
            Answer(JStr(<<"ans">>), JAbsent, JStr(<<"E">>), JNull, RawNotList)
      [] OTHER -> Answer(JAbsent, JAbsent, JAbsent, JAbsent, RawList(<<>>))

GenerationTexts ==
    { <<d>> : d \in GenerationDocs }
    \cup
    { <<FenceJson, "\n", "{g:full}", "\n", Fence>>,
      <<Ctrl, "{g:no citations}">>,
      <<"junk">>,
      <<FenceJson, "junk", "\n", "Sources", ":", "\n", Fence>>,
      <<"Not enough information available">>,
      <<>> }

ErrorMessages == {"Connection error.", "Request timed out."}

(***************************************************************************)
(* get_relevant_nodes and the argument of map_node_names_to_ids            *)
(***************************************************************************)
\* the log line of get_relevant_nodes raises TypeError: [:50] of a value that
\* is None or a number, len() of None or a number
LogLineRaises(a) ==
    \/ JGet(a.stepback_question, JStr(<<>>)).t \in {"null", "num"}
    \/ JGet(a.entities, JList(<<>>)).t \in {"null", "num"}
    \/ JGet(a.node_names, JList(<<>>)).t \in {"null", "num"}

\* get_relevant_nodes: d is what the discovery call did
get_relevant_nodes(d, question) ==
    IF d.raised THEN DefaultAnalysis(question)
    ELSE LET doc == parse_llm_json(d.text)
         IN  IF ~IsDict(doc) \/ LogLineRaises(DiscoveryDoc(doc))
             THEN DefaultAnalysis(question)
             ELSE DiscoveryDoc(doc)

\* len(node_names) raises TypeError, node_name.lower() raises AttributeError
NamesRaise(names) ==
    \/ names.t \in {"null", "num"}
    \/ names.t = "list" /\ \E i \in DOMAIN names.l : names.l[i].t # "str"

\* for node_name in node_names: the items of a list, the characters of a string
CandidateNames(names) ==
    IF names.t = "list" THEN [i \in DOMAIN names.l |-> names.l[i].s]
    ELSE [i \in DOMAIN names.s |-> <<names.s[i]>>]

(***************************************************************************)
(* v2_hybrid_answer: the generation step and the result dictionary         *)
(***************************************************************************)
DefaultHops == 1
DefaultMaxExpanded == 60
DefaultMaxQueries == 12

\* mutation of ErrorAnswer: the message of the exception is left out
ErrorAnswerNoMessage(message) == JStr(<<"Error generating answer">>)

\* f"Error generating answer: {str(e)}"
ErrorAnswer(message) == JStr(<<"Error generating answer: ", message>>)

\* what the try block leaves behind when it raises
Failed(message) ==
    [kind |-> "final", answer |-> ErrorAnswer(message), stepback_intent |-> JStr(<<>>),
     expanded_question |-> JStr(<<>>), business_entities |-> JList(<<>>),
     citations |-> <<>>]

\* the try block of v2_hybrid_answer after the generation call returned r
Parsed(r) ==
    LET output_text == r.output_text
        doc == parse_llm_json(output_text)
        answer_json == GenerationDoc(doc)
        answer == JGet(answer_json.answer, JStr(output_text))
        normalized == normalize_citations(answer_json.citations)
        citations == IF normalized = <<>>
                     THEN extract_citations_from_response(r.annotations)
                     ELSE normalized
    IN  IF ~IsDict(doc) THEN Failed("'list' object has no attribute 'get'")
        ELSE IF citations # <<>> /\ JTruthy(answer) /\ answer.t # "str"
        THEN Failed(IF answer.t = "num" THEN "'int' object has no attribute 'strip'"
                    ELSE "'list' object has no attribute 'strip'")
        ELSE [kind |-> "final",
              answer |-> IF citations # <<>> /\ JTruthy(answer)
                         THEN JStr(append_sources_section(answer.s, citations))
                         ELSE answer,
              stepback_intent |-> JGet(answer_json.stepback_intent, JStr(<<>>)),
              expanded_question |-> JGet(answer_json.expanded_question, JStr(<<>>)),
              business_entities |-> JGet(answer_json.business_entities, JList(<<>>)),
              citations |-> citations]

\* the try/except of v2_hybrid_answer: the pending return, or the values the
\* final result is built from
Generated(r, background) ==
    IF r.raised THEN Failed(r.message)
    ELSE IF background /\ r.status # "completed"
    THEN [kind |-> "pending", answer |-> JNull, stepback_intent |-> JStr(<<>>),
          expanded_question |-> JStr(<<>>), business_entities |-> JList(<<>>),
          citations |-> <<>>]
    ELSE Parsed(r)

\* mutation of FinalField: the value of the analysis is not used
FinalFieldNoFallback(value, fallback) == value

\* value or fallback
FinalField(value, fallback) == IF JTruthy(value) THEN value ELSE fallback

\* the entries of meta both result dictionaries have
Meta(kg, queries, keys, task_id, status, citations) ==
    [keys |-> {"v2_workflow", "mode", "model", "seed_node_names", "seed_node_ids",
               "expanded_nodes", "expanded_edges", "kg_guided_queries",
               "kg_vector_store_id", "doc_vector_store_id"} \cup keys,
     seed_node_names |-> JGet(kg.question_analysis.node_names, JList(<<>>)),
     seed_node_ids |-> kg.seed_node_ids,
     expanded_nodes |-> Len(kg.expanded_node_ids),
     expanded_edges |-> Len(kg.edges),
     kg_guided_queries |-> queries,
     background_task_id |-> task_id,
     background_status |-> status,
     citations |-> citations]

\* the dictionary returned for a background request that has not completed
PendingResult(kg, queries, r) ==
    LET analysis == kg.question_analysis
    IN  [keys |-> {"answer", "markdown", "stepback_intent", "expanded_question",
                   "business_entities", "curated_chunks", "meta"},
         answer |-> JNull,
         markdown |-> JStr(<<"Deep mode request accepted. Task ID: ", r.id,
                             ". Poll status to retrieve the final answer.">>),
         sources |-> <<>>,
         stepback_intent |-> JGet(analysis.stepback_question, JStr(<<>>)),
         expanded_question |-> JGet(analysis.expanded_question, JStr(<<>>)),
         business_entities |-> JGet(analysis.entities, JList(<<>>)),
         meta |-> Meta(kg, queries,
                       {"background_mode", "background_task_id", "background_status"},
                       r.id, IF r.status # "" THEN r.status ELSE "in_progress", <<>>)]

\* the dictionary built after the try/except
FinalResult(kg, queries, g) ==
    LET analysis == kg.question_analysis
    IN  [keys |-> {"answer", "markdown", "sources", "stepback_intent", "expanded_question",
                   "business_entities", "curated_chunks", "meta"},
         answer |-> g.answer,
         markdown |-> g.answer,
         sources |-> g.citations,
         stepback_intent |-> FinalField(g.stepback_intent,
                                        JGet(analysis.stepback_question, JStr(<<>>))),
         expanded_question |-> FinalField(g.expanded_question,
                                          JGet(analysis.expanded_question, JStr(<<>>))),
         business_entities |-> FinalField(g.business_entities,
                                          JGet(analysis.entities, JList(<<>>))),
         meta |-> Meta(kg, queries, {"citations"}, Absent, Absent, g.citations)]

\* len(answer) of the last log line raises TypeError
LenRaises(answer) == answer.t \in {"null", "num"}

VARIABLES
    pc,                     \* position of the operation the specification runs
    G,                      \* the graph
    by_id,                  \* node table: list of [id, data] in iteration order
    name_index,             \* set of [key, ids]; {} is no index
    node_names,             \* map_node_names_to_ids: the candidate names
    seed_ids,               \* the seed list
    hops,                   \* the hop limit
    edge_type_whitelist,    \* expand_nodes: the allow-list ({} is none)
    max_expanded,           \* the budget
    adj_desc,               \* iteration order of G's adjacency
    bfs,                    \* expand_nodes: seen, q, edges
    expanded,               \* expand_nodes: the returned (expanded_node_ids, edges)
    question,               \* the original question
    kg_result,              \* the subgraph result
    max_queries,            \* the cap of the query list
    expanded_queries,       \* the list build_kg_guided_queries returns
    background_mode,        \* v2_hybrid_answer: the background_mode option
    discovery,              \* what the discovery call did
    stepback_response,      \* the analysis get_relevant_nodes returned
    kg_text,                \* the lines generate_kg_text returned
    resp,                   \* what the generation call did
    result,                 \* the dictionary v2_hybrid_answer returned
    exc,                    \* the exception that escaped v2_hybrid_answer ("" is none)
    trace,                  \* v2_hybrid_answer: the stages entered so far, in order
    kg_cache,               \* _KG_CACHE: domain -> the cached load (0 is no entry)
    thread,                 \* the calls of load_graph_artifacts the threads are in
    loads,                  \* domain -> number of loads of its graph so far
    writes,                 \* domain -> number of writes of its cache entry so far
    args,                   \* the arguments of the function a specification applies
    ret,                    \* what that function returned
    db,                     \* the tasks table of the SQLite file: task_id -> status
    gcs,                    \* the copy of the database file in GCS
    upload_threads,         \* number of upload threads started and not yet at the lock
    sync_lock,              \* _sync_lock: the upload thread that holds it
    worker                  \* task_id -> how far the request and its worker have come

vars == <<pc, G, by_id, name_index, node_names, seed_ids, hops, edge_type_whitelist,
          max_expanded, adj_desc, bfs, expanded, question, kg_result, max_queries,
          expanded_queries, background_mode, discovery, stepback_response, kg_text,
          resp, result, exc, trace, kg_cache, thread, loads, writes, args, ret,
          db, gcs, upload_threads, sync_lock, worker>>

resolveVars == <<name_index, node_names>>
expandVars == <<G, hops, edge_type_whitelist, max_expanded, adj_desc, bfs, expanded>>
queryVars == <<question, kg_result, max_queries, expanded_queries>>
pipeVars == <<background_mode, discovery, stepback_response, kg_text, resp, result, exc>>
cacheVars == <<kg_cache, thread, loads, writes>>
callVars == <<args, ret>>
taskVars == <<db, gcs, upload_threads, sync_lock, worker>>

NoResult == [expanded_node_ids |-> <<>>, edges |-> <<>>]

\* the variables of expand_nodes while another operation runs
ExpandUnused ==
    /\ G = {}
    /\ hops = 0
    /\ edge_type_whitelist = {}
    /\ max_expanded = 0
    /\ adj_desc = FALSE
    /\ bfs = ExpandInit(<<>>)
    /\ expanded = NoResult

\* the variables of map_node_names_to_ids while another operation runs
ResolveUnused ==
    /\ name_index = {}
    /\ node_names = <<>>

\* the variables of build_kg_guided_queries while another operation runs
QueryUnused ==
    /\ question = <<>>
    /\ kg_result = EmptyKg(EmptyAnalysis)
    /\ max_queries = 0
    /\ expanded_queries = <<>>

\* the discovery call and the generation call before they are made
NoDiscovery == [called |-> FALSE, raised |-> FALSE, text |-> <<>>]
NoResp ==
    [called |-> FALSE, raised |-> FALSE, message |-> "", status |-> "", id |-> "",
     output_text |-> <<>>, annotations |-> <<>>]
NoKgText == [nodes_summary |-> <<>>, edges_summary |-> <<>>]
NoDict == [keys |-> {}]

\* the variables of v2_hybrid_answer while another operation runs
PipeUnused ==
    /\ background_mode = FALSE
    /\ discovery = NoDiscovery
    /\ stepback_response = EmptyAnalysis
    /\ kg_text = NoKgText
    /\ resp = NoResp
    /\ result = NoDict
    /\ exc = ""
    /\ trace = <<>>

\* the variables of load_graph_artifacts while another operation runs
CacheUnused ==
    /\ kg_cache = <<>>
    /\ thread = <<>>
    /\ loads = <<>>
    /\ writes = <<>>

\* the variables of the task store while another operation runs
TaskUnused ==
    /\ db = <<>>
    /\ gcs = <<>>
    /\ upload_threads = 0
    /\ sync_lock = <<>>
    /\ worker = <<>>

\* the variables of a function applied on its own while another operation runs
CallUnused ==
    /\ args = <<>>
    /\ ret = <<>>

(***************************************************************************)
(* SpecExpand: expand_nodes on every graph, seed list, hop limit, budget   *)
(* and allow-list of the model.                                            *)
(***************************************************************************)
EInit ==
    /\ G \in Graphs
    /\ seed_ids \in SeedLists
    /\ hops \in 0..MaxHops
    /\ edge_type_whitelist \in Whitelists
    /\ max_expanded \in 0..MaxBudget
    /\ adj_desc \in BOOLEAN
    /\ bfs = ExpandInit(seed_ids)
    /\ expanded = NoResult
    /\ pc = "loop"
    /\ by_id = <<>>
    /\ ResolveUnused
    /\ QueryUnused
    /\ PipeUnused
    /\ CacheUnused
    /\ CallUnused
    /\ TaskUnused

\* one iteration of the while loop of expand_nodes
ExpandLoop ==
    /\ pc = "loop"
    /\ LoopGuard(bfs, max_expanded)
    /\ bfs' = ExpandStep(G, hops, edge_type_whitelist, adj_desc, bfs)
    /\ UNCHANGED <<pc, G, seed_ids, hops, edge_type_whitelist, max_expanded, adj_desc, expanded>>
    /\ UNCHANGED <<by_id, resolveVars, queryVars, pipeVars>>
    /\ UNCHANGED <<trace, cacheVars, callVars, taskVars>>

\* the loop is left: deduplicate the edges and return list(seen), edges
ExpandReturn ==
    /\ pc = "loop"
    /\ ~LoopGuard(bfs, max_expanded)
    /\ \E ns \in Perms(bfs.seen), es \in Perms(DedupEdges(bfs.edges)) :
          expanded' = [expanded_node_ids |-> ns, edges |-> es]
    /\ pc' = "done"
    /\ UNCHANGED <<G, seed_ids, hops, edge_type_whitelist, max_expanded, adj_desc, bfs>>
    /\ UNCHANGED <<by_id, resolveVars, queryVars, pipeVars>>
    /\ UNCHANGED <<trace, cacheVars, callVars, taskVars>>

ENext == ExpandLoop \/ ExpandReturn

SpecExpand == EInit /\ [][ENext]_vars

(***************************************************************************)
(* Claims about expand_nodes                                               *)
(***************************************************************************)
\* C2: for every graph, seed list, hop limit and budget, the list of expanded
\* node identifiers returned by expand_nodes has at most max_expanded members.
C2_BudgetRespected ==
    pc = "done" => Len(expanded.expanded_node_ids) <= max_expanded

Neighbours(Gr, S) ==
    S \cup {e.t : e \in {x \in Gr : x.s \in S}} \cup {e.s : e \in {x \in Gr : x.t \in S}}

RECURSIVE ReachWithin(_, _, _)
\* the nodes within h hops of S, edges followed in either direction
ReachWithin(Gr, S, h) ==
    IF h = 0 THEN S ELSE ReachWithin(Gr, Neighbours(Gr, S), h - 1)

\* C3: every node of the expanded result of expand_nodes is reachable from
\* some seed within hops hops, edges followed in either direction, and every
\* seed is in the expanded result.
C3_ReachableWithinHops ==
    pc = "done" =>
        /\ Range(expanded.expanded_node_ids) \subseteq ReachWithin(G, Range(seed_ids), hops)
        /\ Range(seed_ids) \subseteq Range(expanded.expanded_node_ids)

\* expand_nodes has returned a node that is no seed, with a hop limit of 1 that
\* leaves out a node two hops away
C3_Witness ==
    /\ pc = "done"
    /\ hops = 1
    /\ Range(expanded.expanded_node_ids) \ Range(seed_ids) # {}
    /\ ReachWithin(G, Range(seed_ids), 2) \ Range(expanded.expanded_node_ids) # {}

(***************************************************************************)
(* SpecResolve: map_node_names_to_ids on every node table and candidate    *)
(* list of the model, without and with the name index.                     *)
(***************************************************************************)
RInit ==
    /\ by_id \in NodeTables
    /\ node_names \in CandidateLists
    /\ \E use_index \in BOOLEAN :
          name_index = IF use_index THEN BuildNameIndex(by_id) ELSE {}
    /\ seed_ids = <<>>
    /\ pc = "resolve"
    /\ ExpandUnused
    /\ QueryUnused
    /\ PipeUnused
    /\ CacheUnused
    /\ CallUnused
    /\ TaskUnused

\* the call of map_node_names_to_ids
Resolve ==
    /\ pc = "resolve"
    /\ seed_ids' \in Perms(map_node_names_to_ids(node_names, by_id, name_index))
    /\ pc' = "resolved"
    /\ UNCHANGED <<by_id, resolveVars, expandVars, queryVars, pipeVars>>
    /\ UNCHANGED <<trace, cacheVars, callVars, taskVars>>

RNext == Resolve

SpecResolve == RInit /\ [][RNext]_vars

\* C5: with or without a name index, a candidate name that equals a node's
\* display name up to letter case always has that node's identifier in the
\* list returned by map_node_names_to_ids.
C5_ExactNameResolves ==
    pc = "resolved" =>
        \A i \in DOMAIN node_names, e \in Range(by_id) :
            lower(node_names[i]) = lower(ActualName(e)) => e.id \in Range(seed_ids)

(***************************************************************************)
(* SpecQueries: build_kg_guided_queries on drawn questions, subgraph       *)
(* results, node tables and caps.                                          *)
(***************************************************************************)
MaxQueries == 3

Questions == { <<"a">>, <<"A", " ", "b">> }

QueryDataPool ==
    { NodeData(<<"a">>, NoStr, NoStr),
      NodeData(<<"A">>, NoStr, NoStr),
      NodeData(<<>>, <<"b">>, NoStr),
      NodeData(NoStr, <<"b">>, NoStr),
      NodeData(NoStr, NoStr, <<"a">>) }

\* tables of the nodes 1 and 2 (3 has no entry)
QueryTables ==
    { <<[id |-> 1, data |-> d1], [id |-> 2, data |-> d2]>> :
        d1 \in QueryDataPool, d2 \in QueryDataPool }

QueryAnalyses ==
    [stepback_question : {JAbsent, JStr(<<"A">>), JStr(<<"b">>)},
     expanded_question : {JNull, JStr(<<>>), JStr(<<"a", " ", "a">>)},
     entities : {JList(<<>>)},
     node_names : {JList(<<>>)}]

DistinctLists(S, n) ==
    UNION { {l \in [1..k -> S] : \A i \in 1..k, j \in 1..k : l[i] = l[j] => i = j} : k \in 0..n }

QueryEdgePool ==
    { [source_id |-> 1, target_id |-> 2, type |-> "USES"],
      [source_id |-> 2, target_id |-> 1, type |-> "USES"],
      [source_id |-> 1, target_id |-> 1, type |-> "RELATED"],
      [source_id |-> 2, target_id |-> 3, type |-> "HAS"] }

\* a subgraph past every window of build_kg_guided_queries: nine nodes, eleven edges
LongIds == [i \in 1..(EntityNodeWindow + 1) |-> i]

LongTable ==
    [i \in 1..(EntityNodeWindow + 1) |->
        [id |-> i, data |-> NodeData(<<IF i % 2 = 0 THEN "a" ELSE "A", ToString(i)>>,
                                     NoStr, NoStr)]]

LongEdges ==
    [i \in 1..(EdgeQueryWindow + 1) |->
        [source_id |-> ((i - 1) % (EntityNodeWindow + 1)) + 1,
         target_id |-> (i % (EntityNodeWindow + 1)) + 1,
         type |-> IF i <= EntityNodeWindow + 1 THEN "USES" ELSE "HAS"]]

QInit ==
    /\ question \in Questions
    /\ max_queries \in 0..MaxQueries
    /\ \E a \in QueryAnalyses :
          \/ /\ by_id \in QueryTables
             /\ \E ns \in DistinctLists(GraphNodes, 3), es \in DistinctLists(QueryEdgePool, 2) :
                   kg_result = [question_analysis |-> a, seed_node_ids |-> <<>>,
                                expanded_node_ids |-> ns, edges |-> es]
          \/ /\ by_id = LongTable
             /\ kg_result = [question_analysis |-> a, seed_node_ids |-> <<>>,
                             expanded_node_ids |-> LongIds, edges |-> LongEdges]
    /\ expanded_queries = <<>>
    /\ seed_ids = <<>>
    /\ pc = "build"
    /\ ExpandUnused
    /\ ResolveUnused
    /\ PipeUnused
    /\ CacheUnused
    /\ CallUnused
    /\ TaskUnused

\* the call of build_kg_guided_queries
BuildQueries ==
    /\ pc = "build"
    /\ expanded_queries' = build_kg_guided_queries(question, kg_result, by_id, max_queries)
    /\ pc' = "built"
    /\ UNCHANGED <<by_id, seed_ids, question, kg_result, max_queries, resolveVars, expandVars,
                   pipeVars>>
    /\ UNCHANGED <<trace, cacheVars, callVars, taskVars>>

QNext == BuildQueries

SpecQueries == QInit /\ [][QNext]_vars

PipeQuestions == { <<"a">> }

PipeTables ==
    { <<[id |-> 1, data |-> NodeData(<<"a">>, NoStr, NoStr)],
        [id |-> 2, data |-> NodeData(<<"a", " ", "b">>, NoStr, NoStr)],
        [id |-> 3, data |-> NodeData(NoStr, <<"b">>, NoStr)]>>,
      <<[id |-> 2, data |-> NodeData(<<"a", "b">>, NoStr, NoStr)],
        [id |-> 1, data |-> NodeData(<<"a">>, NoStr, NoStr)]>> }

PipeGraphs ==
    { {e \in EdgePool : e.k = 0 /\ e.type = "USES" /\ <<e.s, e.t>> \in {<<1, 2>>, <<2, 3>>}},
      {e \in EdgePool : <<e.s, e.t>> \in {<<1, 2>>, <<2, 1>>} /\ (e.type = "USES" => e.evidence # Absent)} }

DiscoveryOutcomes ==
    { [called |-> TRUE, raised |-> TRUE, text |-> <<>>] }
    \cup
    { [called |-> TRUE, raised |-> FALSE, text |-> t] : t \in DiscoveryTexts }

Annotated == << <<"Doc.pdf">>, <<" ">>, <<"doc.pdf">>, <<"b">> >>

Response(status, output_text, annotations) ==
    [called |-> TRUE, raised |-> FALSE, message |-> "", status |-> status, id |-> "resp_1",
     output_text |-> output_text, annotations |-> annotations]

GenerationOutcomes ==
    { [NoResp EXCEPT !.called = TRUE, !.raised = TRUE, !.message = m] : m \in ErrorMessages }
    \cup
    { Response(s, t, <<>>) : s \in {"completed", "in_progress"}, t \in GenerationTexts }
    \cup
    { Response("completed", t, Annotated) : t \in GenerationTexts }
    \cup
    { Response("", <<"{g:full}">>, <<>>) }

Init ==
    /\ question \in PipeQuestions
    /\ by_id \in PipeTables
    /\ G \in PipeGraphs
    /\ \E use_index \in BOOLEAN :
          name_index = IF use_index THEN BuildNameIndex(by_id) ELSE {}
    /\ hops \in {DefaultHops, 2}
    /\ max_expanded \in {2, DefaultMaxExpanded}
    /\ max_queries \in {0, 3, DefaultMaxQueries}
    /\ background_mode \in BOOLEAN
    /\ edge_type_whitelist = {}
    /\ adj_desc = FALSE
    /\ bfs = ExpandInit(<<>>)
    /\ expanded = NoResult
    /\ node_names = <<>>
    /\ seed_ids = <<>>
    /\ kg_result = EmptyKg(EmptyAnalysis)
    /\ expanded_queries = <<>>
    /\ discovery = NoDiscovery
    /\ stepback_response = EmptyAnalysis
    /\ kg_text = NoKgText
    /\ resp = NoResp
    /\ result = NoDict
    /\ exc = ""
    /\ trace = <<>>
    /\ CacheUnused
    /\ CallUnused
    /\ TaskUnused
    /\ pc = "discover"

\* STEP 1: get_relevant_nodes
Discover ==
    /\ pc = "discover"
    /\ \E d \in DiscoveryOutcomes :
          /\ discovery' = d
          /\ stepback_response' = get_relevant_nodes(d, question)
    /\ pc' = "map"
    /\ UNCHANGED <<by_id, seed_ids, resolveVars, expandVars, queryVars, background_mode,
                   kg_text, resp, result, exc>>
    /\ trace' = Append(trace, "discovery")
    /\ UNCHANGED <<cacheVars, callVars, taskVars>>

\* STEP 2 in get_relevant_subgraph: map_node_names_to_ids, and the return of
\* the empty subgraph when no seed is found
MapSeeds ==
    /\ pc = "map"
    /\ ~NamesRaise(JGet(stepback_response.node_names, JList(<<>>)))
    /\ node_names' = CandidateNames(JGet(stepback_response.node_names, JList(<<>>)))
    /\ seed_ids' \in Perms(map_node_names_to_ids(node_names', by_id, name_index))
    /\ IF seed_ids' = <<>>
       THEN kg_result' = EmptyKg(stepback_response) /\ pc' = "queries"
       ELSE kg_result' = kg_result /\ pc' = "expand"
    /\ UNCHANGED <<by_id, name_index, expandVars, question, max_queries, expanded_queries,
                   pipeVars>>
    /\ trace' = Append(trace, "resolution")
    /\ UNCHANGED <<cacheVars, callVars, taskVars>>

\* map_node_names_to_ids raises; nothing catches it
MapSeedsRaises ==
    /\ pc = "map"
    /\ NamesRaise(JGet(stepback_response.node_names, JList(<<>>)))
    /\ exc' = IF JGet(stepback_response.node_names, JList(<<>>)).t = "list"
              THEN "AttributeError" ELSE "TypeError"
    /\ pc' = "raised"
    /\ UNCHANGED <<by_id, seed_ids, resolveVars, expandVars, queryVars, background_mode,
                   discovery, stepback_response, kg_text, resp, result>>
    /\ trace' = Append(trace, "resolution")
    /\ UNCHANGED <<cacheVars, callVars, taskVars>>

\* STEP 3 in get_relevant_subgraph: expand_nodes and the returned dictionary
ExpandSubgraph ==
    /\ pc = "expand"
    /\ bfs' = ExpandRun(G, hops, edge_type_whitelist, max_expanded, adj_desc,
                        ExpandInit(seed_ids))
    /\ \E ns \in Perms(bfs'.seen), es \in Perms(DedupEdges(bfs'.edges)) :
          /\ expanded' = [expanded_node_ids |-> ns, edges |-> es]
          /\ kg_result' = [question_analysis |-> stepback_response,
                           seed_node_ids |-> seed_ids,
                           expanded_node_ids |-> ns, edges |-> es]
    /\ pc' = "queries"
    /\ UNCHANGED <<by_id, seed_ids, resolveVars, G, hops, edge_type_whitelist, max_expanded,
                   adj_desc, question, max_queries, expanded_queries, pipeVars>>
    /\ trace' = Append(trace, "expansion")
    /\ UNCHANGED <<cacheVars, callVars, taskVars>>

\* STEP 4: build_kg_guided_queries
SynthesizeQueries ==
    /\ pc = "queries"
    /\ ~QueriesRaise(kg_result.question_analysis)
    /\ expanded_queries' = build_kg_guided_queries(question, kg_result, by_id, max_queries)
    /\ pc' = "kg_text"
    /\ UNCHANGED <<by_id, seed_ids, resolveVars, expandVars, question, kg_result, max_queries,
                   pipeVars>>
    /\ trace' = Append(trace, "synthesis")
    /\ UNCHANGED <<cacheVars, callVars, taskVars>>

\* build_kg_guided_queries raises; nothing catches it
SynthesizeRaises ==
    /\ pc = "queries"
    /\ QueriesRaise(kg_result.question_analysis)
    /\ exc' = "AttributeError"
    /\ pc' = "raised"
    /\ UNCHANGED <<by_id, seed_ids, resolveVars, expandVars, queryVars, background_mode,
                   discovery, stepback_response, kg_text, resp, result>>
    /\ trace' = Append(trace, "synthesis")
    /\ UNCHANGED <<cacheVars, callVars, taskVars>>

\* STEP 5: generate_kg_text
KgText ==
    /\ pc = "kg_text"
    /\ kg_text' = generate_kg_text(kg_result, by_id, KgMaxNodes, KgMaxEdges)
    /\ pc' = "generate"
    /\ UNCHANGED <<by_id, seed_ids, resolveVars, expandVars, queryVars, background_mode,
                   discovery, stepback_response, resp, result, exc>>
    /\ trace' = Append(trace, "kg_text")
    /\ UNCHANGED <<cacheVars, callVars, taskVars>>

\* STEP 6 in background mode, the call not completed: the pending dictionary
ReturnPending ==
    /\ pc = "generate"
    /\ \E r \in GenerationOutcomes :
          /\ Generated(r, background_mode).kind = "pending"
          /\ resp' = r
          /\ result' = PendingResult(kg_result, expanded_queries, r)
    /\ pc' = "returned"
    /\ UNCHANGED <<by_id, seed_ids, resolveVars, expandVars, queryVars, background_mode,
                   discovery, stepback_response, kg_text, exc>>
    /\ trace' = Append(trace, "generation")
    /\ UNCHANGED <<cacheVars, callVars, taskVars>>

\* STEP 6: the call, the try/except and the final dictionary
ReturnFinal ==
    /\ pc = "generate"
    /\ \E r \in GenerationOutcomes :
          /\ Generated(r, background_mode).kind = "final"
          /\ ~LenRaises(Generated(r, background_mode).answer)
          /\ resp' = r
          /\ result' = FinalResult(kg_result, expanded_queries, Generated(r, background_mode))
    /\ pc' = "returned"
    /\ UNCHANGED <<by_id, seed_ids, resolveVars, expandVars, queryVars, background_mode,
                   discovery, stepback_response, kg_text, exc>>
    /\ trace' = Append(trace, "generation")
    /\ UNCHANGED <<cacheVars, callVars, taskVars>>

\* STEP 6, the log line after the result is built: len(answer) raises
ResultLogRaises ==
    /\ pc = "generate"
    /\ \E r \in GenerationOutcomes :
          /\ Generated(r, background_mode).kind = "final"
          /\ LenRaises(Generated(r, background_mode).answer)
          /\ resp' = r
    /\ exc' = "TypeError"
    /\ pc' = "raised"
    /\ UNCHANGED <<by_id, seed_ids, resolveVars, expandVars, queryVars, background_mode,
                   discovery, stepback_response, kg_text, result>>
    /\ trace' = Append(trace, "generation")
    /\ UNCHANGED <<cacheVars, callVars, taskVars>>

Next ==
    \/ Discover
    \/ MapSeeds
    \/ MapSeedsRaises
    \/ ExpandSubgraph
    \/ SynthesizeQueries
    \/ SynthesizeRaises
    \/ KgText
    \/ ReturnPending
    \/ ReturnFinal
    \/ ResultLogRaises

Spec == Init /\ [][Next]_vars

(***************************************************************************)
(* Claims about v2_hybrid_answer                                           *)
(***************************************************************************)
\* C1: no exception escapes: whatever the discovery call and the generation
\* call do (raise, or return any payload, null or wrongly typed fields
\* included), v2_hybrid_answer returns a result dictionary and raises nothing.
C1_NoExceptionEscapes == pc # "raised"

\* build_kg_guided_queries has returned
QueriesBuilt ==
    \/ pc \in {"kg_text", "generate", "returned"}
    \/ pc = "raised" /\ resp.called

\* the step after the seeds were resolved has ended
SubgraphStepOver ==
    \/ QueriesBuilt
    \/ pc = "raised" /\ exc = "AttributeError" /\ ~NamesRaise(JGet(stepback_response.node_names, JList(<<>>)))

C8_GenerationRaiseReported ==
    resp.raised =>
        /\ pc = "returned"
        /\ result.answer.t = "str"
        /\ IsSubstring(<<resp.message>>, result.answer.s)
        /\ "sources" \in result.keys
        /\ result.sources = <<>>
        /\ result.meta.seed_node_ids = seed_ids
        /\ result.meta.expanded_nodes = Len(kg_result.expanded_node_ids)
        /\ result.meta.expanded_edges = Len(kg_result.edges)
        /\ result.meta.kg_guided_queries = expanded_queries

\* the generation call raised after a subgraph with an edge was expanded and
\* queries were synthesized
C8_Witness ==
    /\ pc = "returned"
    /\ resp.raised
    /\ seed_ids # <<>>
    /\ Len(kg_result.expanded_node_ids) >= 2
    /\ kg_result.edges # <<>>
    /\ Len(expanded_queries) >= 2

\* json.loads fails on the text before and after the control characters are removed
Unparseable(text) ==
    /\ JsonLoads(CleanFences(text)) = ""
    /\ JsonLoads(RemoveControl(CleanFences(text))) = ""

IsPrefix(a, b) == Len(a) <= Len(b) /\ SubSeq(b, 1, Len(a)) = a

C10_PendingExactlyWhenNotCompleted ==
    (resp.called /\ ~resp.raised) =>
        /\ pc = "returned"
        /\ IF background_mode /\ resp.status # "completed"
           THEN /\ result.answer = JNull
                /\ "background_task_id" \in result.meta.keys
                /\ result.meta.background_task_id = resp.id
           ELSE /\ result.answer # JNull
                /\ "background_task_id" \notin result.meta.keys

(***************************************************************************)
(* SpecCache: load_graph_artifacts called from request threads and from    *)
(* the worker threads of _executor.  _KG_CACHE is shared; nothing          *)
(* serializes the calls.                                                   *)
(***************************************************************************)
MaxThreads == 2
MaxCalls == 2

Threads == 1..MaxThreads
Domains == {"d1", "d2"}

\* mutation of CacheHit: the cache is never found filled
CacheHitNever(cache, domain_id) == FALSE

\* if domain_id in _KG_CACHE
CacheHit(cache, domain_id) == cache[domain_id] # 0

CInit ==
    /\ kg_cache = [d \in Domains |-> 0]
    /\ thread = [t \in Threads |->
                    [pc |-> "idle", domain_id |-> "d1", hit_at_call |-> FALSE,
                     loaded |-> 0, returned |-> 0, calls |-> 0]]
    /\ loads = [d \in Domains |-> 0]
    /\ writes = [d \in Domains |-> 0]
    /\ pc = "serving"
    /\ G = {}
    /\ by_id = <<>>
    /\ seed_ids = <<>>
    /\ ExpandUnused
    /\ ResolveUnused
    /\ QueryUnused
    /\ PipeUnused
    /\ CallUnused
    /\ TaskUnused

\* a thread calls load_graph_artifacts(domain_id)
CallLoad(t, d) ==
    /\ thread[t].pc = "idle"
    /\ thread[t].calls < MaxCalls
    /\ thread' = [thread EXCEPT ![t] = [@ EXCEPT !.pc = "check", !.domain_id = d,
                                                 !.hit_at_call = kg_cache[d] # 0,
                                                 !.loaded = 0, !.returned = 0,
                                                 !.calls = @ + 1]]
    /\ UNCHANGED <<kg_cache, loads, writes>>

\* the test of the cache and the return of the cached entry
CacheCheck(t) ==
    /\ thread[t].pc = "check"
    /\ thread' = [thread EXCEPT ![t] =
                    IF CacheHit(kg_cache, thread[t].domain_id)
                    THEN [@ EXCEPT !.pc = "idle", !.returned = kg_cache[thread[t].domain_id]]
                    ELSE [@ EXCEPT !.pc = "load"]]
    /\ UNCHANGED <<kg_cache, loads, writes>>

\* load_kg_from_json: a new graph object, the n-th loaded for the domain
LoadGraph(t) ==
    /\ thread[t].pc = "load"
    /\ loads' = [loads EXCEPT ![thread[t].domain_id] = @ + 1]
    /\ thread' = [thread EXCEPT ![t] = [@ EXCEPT !.pc = "store",
                                                 !.loaded = loads'[thread[t].domain_id]]]
    /\ UNCHANGED <<kg_cache, writes>>

\* the path is no file, or the download fails: the call raises
LoadRaises(t) ==
    /\ thread[t].pc = "load"
    /\ thread' = [thread EXCEPT ![t] = [@ EXCEPT !.pc = "idle"]]
    /\ UNCHANGED <<kg_cache, loads, writes>>

\* _KG_CACHE[domain_id] = (G, by_id, name_index) and the return
StoreEntry(t) ==
    /\ thread[t].pc = "store"
    /\ kg_cache' = [kg_cache EXCEPT ![thread[t].domain_id] = thread[t].loaded]
    /\ writes' = [writes EXCEPT ![thread[t].domain_id] = @ + 1]
    /\ thread' = [thread EXCEPT ![t] = [@ EXCEPT !.pc = "idle",
                                                 !.returned = thread[t].loaded]]
    /\ UNCHANGED loads

CNext ==
    /\ \E t \in Threads :
          \/ \E d \in Domains : CallLoad(t, d)
          \/ CacheCheck(t)
          \/ LoadGraph(t)
          \/ LoadRaises(t)
          \/ StoreEntry(t)
    /\ UNCHANGED <<pc, G, by_id, seed_ids, resolveVars, hops, edge_type_whitelist, max_expanded,
                   adj_desc, bfs, expanded, queryVars, pipeVars, trace, callVars, taskVars>>

SpecCache == CInit /\ [][CNext]_vars

\* C11: under any interleaving of concurrent load_graph_artifacts calls, the
\* graph of each domain is loaded and its cache entry written at most once,
\* and a cache entry is never replaced after it has been written.
C11_LoadedAndWrittenOnce ==
    pc = "serving" => \A d \in Domains : loads[d] <= 1 /\ writes[d] <= 1

\* C11 amended: a cache entry, once written, is never removed and always holds
\* a graph loaded for its domain; a call that starts when the entry of its
\* domain exists neither loads nor writes and returns the entry; only calls
\* that found no entry load and write, so calls that race on the first access
\* may each load the graph, the later write replacing the earlier entry.
C11_WrittenOnlyByFirstAccessRaces ==
    pc = "serving" =>
        /\ \A d \in Domains :
              /\ writes[d] > 0 => kg_cache[d] # 0
              /\ kg_cache[d] \in 0..loads[d]
              /\ writes[d] <= loads[d]
        /\ \A t \in Threads :
              /\ thread[t].pc \in {"load", "store"} => ~thread[t].hit_at_call
              /\ (thread[t].hit_at_call /\ thread[t].pc = "idle") =>
                    /\ thread[t].loaded = 0
                    /\ thread[t].returned # 0

\* two calls raced on the first access of a domain and both wrote its entry,
\* and a call that started afterwards returned the entry without loading
C11_Witness ==
    /\ pc = "serving"
    /\ \E d \in Domains :
          /\ writes[d] = 2
          /\ \E t \in Threads :
                /\ thread[t].pc = "idle"
                /\ thread[t].domain_id = d
                /\ thread[t].hit_at_call
                /\ thread[t].returned = kg_cache[d]

(***************************************************************************)
(* The order of the stages of v2_hybrid_answer                             *)
(***************************************************************************)
\* the position of a stage in the body of v2_hybrid_answer (STEP 1 .. STEP 6)
StageRank(stage) ==
    CASE stage = "discovery" -> 1
      [] stage = "resolution" -> 2
      [] stage = "expansion" -> 3
      [] stage = "synthesis" -> 4
      [] stage = "kg_text" -> 5
      [] stage = "generation" -> 6

StageCount(stage) == Cardinality({i \in DOMAIN trace : trace[i] = stage})

\* C12: in every run of v2_hybrid_answer the stages happen strictly in the
\* order discovery, name resolution, expansion, query synthesis and KG text
\* rendering, generation; when the run has ended, the discovery call and the
\* generation call have each been made exactly once, also when discovery
\* failed or the seed set is empty.
C12_StagesInOrderCallsOnce ==
    /\ \A i, j \in DOMAIN trace : i < j => StageRank(trace[i]) < StageRank(trace[j])
    /\ pc \in {"returned", "raised"} =>
          /\ StageCount("discovery") = 1
          /\ StageCount("generation") = 1

(***************************************************************************)
(* Claims about the edge list of expand_nodes                              *)
(***************************************************************************)
Triple(r) == <<r.source_id, r.target_id, r.type>>

\* C13: for every graph, parallel edges, self-loops and edges visited from
\* both endpoints included, the edge list returned by expand_nodes contains
\* no two records with the same (source, target, type) triple.
C13_NoDuplicateTriples ==
    pc = "done" =>
        \A i, j \in DOMAIN expanded.edges :
            i # j => Triple(expanded.edges[i]) # Triple(expanded.edges[j])

\* expand_nodes has returned after emitting two parallel edges of one type that
\* differ in their evidence, and one edge from both of its endpoints
C13_Witness ==
    /\ pc = "done"
    /\ \E i, j \in DOMAIN bfs.edges :
          /\ i < j
          /\ Triple(bfs.edges[i]) = Triple(bfs.edges[j])
          /\ bfs.edges[i].evidence # bfs.edges[j].evidence
    /\ \E i, j \in DOMAIN bfs.edges : i < j /\ bfs.edges[i] = bfs.edges[j]
    /\ Len(expanded.edges) = 1

Queued(st) == {st.q[i][1] : i \in DOMAIN st.q}

\* the graph edges incident to u that pass the allow-list
Incident(Gr, u, wl) == {e \in Gr : (e.s = u \/ e.t = u) /\ ok_edge(e, wl)}

\* C17: in expand_nodes, every node that has been enqueued is eventually
\* dequeued and has its incident edges emitted, also when the visitation
\* budget is reached while the node is still waiting in the queue: when
\* expand_nodes returns, no enqueued node is left in the queue and the
\* returned edges hold every allowed edge incident to an enqueued node.
C17_EnqueuedNodesProcessed ==
    pc = "done" =>
        /\ Queued(bfs) = {}
        /\ \A u \in bfs.seen : \A e \in Incident(G, u, edge_type_whitelist) :
              \E i \in DOMAIN expanded.edges :
                  Triple(expanded.edges[i]) = Triple(EdgeRecord(e))

(***************************************************************************)
(* The order of the list of build_kg_guided_queries                        *)
(***************************************************************************)
\* the entries of s that equal no earlier entry case-insensitively, in the
\* order of s
FirstOccurrences(s) ==
    LET keep == SortedSeq({i \in DOMAIN s : \A j \in 1..(i - 1) : lower(s[j]) # lower(s[i])},
                          FALSE)
    IN  [k \in DOMAIN keep |-> s[keep[k]]]

\* the five classes of queries in the order of their priority
ByPriority ==
    QuestionQueries(question, kg_result.question_analysis)
    \o EntityQueries(question, kg_result.expanded_node_ids, by_id)
    \o EdgeQueries(SliceTo(kg_result.edges, EdgeQueryWindow), kg_result.expanded_node_ids, by_id)

\* C20: the list returned by build_kg_guided_queries is a prefix of the
\* case-insensitively deduplicated concatenation, in this order, of the
\* original question, the stepback reformulation, the expanded reformulation,
\* the entity-focused queries and the relationship-focused queries.
C20_PrefixOfPriorityOrder ==
    pc = "built" => IsPrefix(expanded_queries, FirstOccurrences(ByPriority))

\* build_kg_guided_queries has returned the question and an entity-focused
\* query, after dropping a duplicate and cutting off a relationship query
C20_Witness ==
    /\ pc = "built"
    /\ Len(expanded_queries) >= 2
    /\ expanded_queries[1] = question
    /\ \E i \in DOMAIN expanded_queries :
          expanded_queries[i] \in Range(EntityQueries(question, kg_result.expanded_node_ids, by_id))
    /\ Len(FirstOccurrences(ByPriority)) < Len(ByPriority)
    /\ Len(expanded_queries) < Len(FirstOccurrences(ByPriority))
    /\ Range(EdgeQueries(SliceTo(kg_result.edges, EdgeQueryWindow),
                         kg_result.expanded_node_ids, by_id)) \ Range(expanded_queries) # {}

(***************************************************************************)
(* Claims about generate_kg_text                                           *)
(***************************************************************************)
\* the line of an edge with the display names of its two endpoints
RenderedEdge(e, table) ==
    QueryName(table, e.source_id) \o <<" ", "--[", e.type, "]->", " ">>
    \o QueryName(table, e.target_id)

\* C16: for a subgraph result with N expanded nodes and E edges rendered by
\* generate_kg_text with max_nodes >= N and max_edges >= E, the text contains
\* the display name of every expanded node and the rendered line of every
\* edge (source name, type, target name) exactly once.  Stated for the nodes
\* and the edge endpoints that have an entry in by_id.
C16_EveryNodeAndEdgeRendered ==
    StageCount("kg_text") = 1 =>
        LET ids == kg_result.expanded_node_ids
            es == kg_result.edges
            known == {i \in DOMAIN ids : ids[i] \in TableIds(by_id)}
        IN  /\ Len(ids) <= KgMaxNodes /\ Len(es) <= KgMaxEdges
            /\ Len(kg_text.nodes_summary) = Cardinality(known)
            /\ \A i \in known : \E k \in DOMAIN kg_text.nodes_summary :
                  IsPrefix(QueryName(by_id, ids[i]) \o <<" ", "(">>, kg_text.nodes_summary[k])
            /\ Len(kg_text.edges_summary) = Len(es)
            /\ \A i \in DOMAIN es :
                  {es[i].source_id, es[i].target_id} \subseteq TableIds(by_id) =>
                      \E k \in DOMAIN kg_text.edges_summary :
                          kg_text.edges_summary[k] = RenderedEdge(es[i], by_id)

(***************************************************************************)
(* Determinism of the pipeline                                             *)
(***************************************************************************)
\* the run of get_relevant_subgraph in which the seed set and the expanded
\* node set iterate in ascending order and the edge set in one fixed order
AscendingRun ==
    LET seeds == SortedSeq(Range(seed_ids), FALSE)
        st == ExpandRun(G, hops, edge_type_whitelist, max_expanded, adj_desc, ExpandInit(seeds))
    IN  IF seeds = <<>> THEN EmptyKg(stepback_response)
        ELSE [question_analysis |-> stepback_response,
              seed_node_ids |-> seeds,
              expanded_node_ids |-> SortedSeq(st.seen, FALSE),
              edges |-> CHOOSE es \in Perms(DedupEdges(st.edges)) : TRUE]

\* C18: for a fixed question, graph, node table, name index, options and
\* fixed external responses, two runs of the pipeline return the same
\* expanded node set and the same ordered query list, whatever iteration
\* order the intermediate sets have: every run in which the queries were built
\* has the expanded node set and the query list of the run in which the sets
\* iterate in ascending order.
C18_SameNodesAndQueriesInEveryRun ==
    (StageCount("synthesis") = 1 /\ pc # "raised") =>
        /\ Range(kg_result.expanded_node_ids) = Range(AscendingRun.expanded_node_ids)
        /\ expanded_queries = build_kg_guided_queries(question, AscendingRun, by_id, max_queries)

(***************************************************************************)
(* SpecPost: the post-processing of the parsed answer in v2_hybrid_answer: *)
(* _normalize_citations, the citations of the annotations when there are   *)
(* none, _append_sources_section.                                          *)
(***************************************************************************)
MaxCites == 3

CitePool ==
    { CiteDict(<<"1">>, <<"Doc.pdf">>), CiteDict(<<>>, <<"doc.pdf", " ">>),
      CiteStr(<<"Doc.pdf">>), CiteStr(<<" ", "doc.pdf">>), CiteStr(<<"b">>),
      CiteStr(<<" ">>), CiteOther }

RawCitations ==
    {RawNotList} \cup {RawList(items) : items \in UNION {[1..n -> CitePool] : n \in 0..MaxCites}}

AnswerTexts ==
    { <<>>,
      <<"ans">>,
      <<"ans", " ", "[", "1", "]", "\n">>,
      <<"not enough information available">>,
      <<" ", "Not enough information available", "\n">>,
      <<"Not enough information available", " ", "ans">>,
      <<"ans", "\n", "##", " ", "Sources", "\n", "[", "1", "]", " ", "Doc.pdf">>,
      <<"ans", "\n", " ", "sources", " ", "by", " ", "file", ":", "\n">>,
      <<"Sources", "\n", "ans">>,
      <<"ans", " ", "Sources">>,
      <<"Sources", " ", "ans", "\n">> }

PInit ==
    /\ \E raw \in RawCitations, a \in AnswerTexts, ann \in {<<>>, Annotated} :
          args = [raw_citations |-> raw, answer |-> a, annotations |-> ann]
    /\ ret = [normalized |-> <<>>, citations |-> <<>>, answer |-> <<>>]
    /\ pc = "normalize"
    /\ by_id = <<>>
    /\ seed_ids = <<>>
    /\ ExpandUnused
    /\ ResolveUnused
    /\ QueryUnused
    /\ PipeUnused
    /\ CacheUnused
    /\ TaskUnused

\* citations = _normalize_citations(...); if not citations: citations =
\* _extract_citations_from_response(resp)
NormalizeCitations ==
    /\ pc = "normalize"
    /\ LET normalized == normalize_citations(args.raw_citations)
       IN  ret' = [ret EXCEPT !.normalized = normalized,
                              !.citations = IF normalized = <<>>
                                            THEN extract_citations_from_response(args.annotations)
                                            ELSE normalized]
    /\ pc' = "append"
    /\ UNCHANGED <<args, by_id, seed_ids, resolveVars, expandVars, queryVars, pipeVars, trace,
                   cacheVars, taskVars>>

\* answer = _append_sources_section(answer, citations)
AppendSources ==
    /\ pc = "append"
    /\ ret' = [ret EXCEPT !.answer = append_sources_section(args.answer, ret.citations)]
    /\ pc' = "posted"
    /\ UNCHANGED <<args, by_id, seed_ids, resolveVars, expandVars, queryVars, pipeVars, trace,
                   cacheVars, taskVars>>

PNext == NormalizeCitations \/ AppendSources

SpecPost == PInit /\ [][PNext]_vars

\* the sources of the items of a raw list that are strings or source objects
\* with a non-empty source, trimmed, in the order of the list
RECURSIVE ValidSources(_)
ValidSources(items) ==
    IF items = <<>> THEN <<>>
    ELSE (IF Head(items).kind # "other" /\ strip(Head(items).source) # <<>>
          THEN <<strip(Head(items).source)>> ELSE <<>>)
         \o ValidSources(Tail(items))

\* C14: the post-processing of the answer appends a "### Sources" section
\* exactly when the citation list is non-empty, the answer is non-empty, the
\* answer is not the sentinel "not enough information available" (compared
\* after trimming, case-insensitively) and the answer has no Sources heading;
\* in every other case the answer text is returned unchanged.
C14_SourcesAppendedExactlyWhenDue ==
    pc = "posted" =>
        LET a == args.answer
            c == ret.citations
            due == /\ c # <<>>
                   /\ a # <<>>
                   /\ lower(strip(a)) # Sentinel
                   /\ ~has_sources_section(a)
        IN  IF due
            THEN /\ IsPrefix(rstrip(a) \o <<"\n", "\n", "###", " ", "Sources", "\n">>, ret.answer)
                 /\ \A i \in DOMAIN c :
                       IsSubstring(<<"\n", "[">> \o c[i].id \o <<"]", " ">> \o c[i].source,
                                   ret.answer)
            ELSE ret.answer = a

\* a section that lists two citations has been appended to an answer that
\* ended with white space, and the result has a Sources heading
C14_Witness ==
    /\ pc = "posted"
    /\ ret.answer # args.answer
    /\ rstrip(args.answer) # args.answer
    /\ Len(ret.citations) = 2
    /\ has_sources_section(ret.answer)

\* C15: for every raw citation list of plain strings and source objects, the
\* list returned by _normalize_citations contains no two citations whose
\* sources are equal case-insensitively, keeps the first occurrence of each
\* source, and preserves the order of first occurrences.
C15_FirstOccurrencesInOrder ==
    (pc # "normalize" /\ args.raw_citations.t = "list") =>
        /\ \A i, j \in DOMAIN ret.normalized :
              lower(ret.normalized[i].source) = lower(ret.normalized[j].source) => i = j
        /\ [i \in DOMAIN ret.normalized |-> ret.normalized[i].source]
              = FirstOccurrences(ValidSources(args.raw_citations.items))

\* _normalize_citations has dropped a source that differs in letter case from
\* the first one of the list, with another source between the two
C15_Witness ==
    /\ pc # "normalize"
    /\ args.raw_citations.t = "list"
    /\ Len(args.raw_citations.items) = 3
    /\ Len(ret.normalized) = 2
    /\ LET srcs == ValidSources(args.raw_citations.items)
       IN  /\ Len(srcs) = 3
           /\ srcs[1] # srcs[3]
           /\ lower(srcs[1]) = lower(srcs[3])
           /\ ret.normalized[1].source = srcs[1]
           /\ ret.normalized[2].source = srcs[2]

(***************************************************************************)
(* build_kg_guided_queries on an empty subgraph                            *)
(***************************************************************************)
EmptySubgraph == kg_result.expanded_node_ids = <<>> /\ kg_result.edges = <<>>

\* the reformulations of the analysis that are non-empty strings
Reformulations(analysis) ==
    (IF JTruthy(analysis.stepback_question) THEN <<analysis.stepback_question.s>> ELSE <<>>)
    \o (IF JTruthy(analysis.expanded_question) THEN <<analysis.expanded_question.s>> ELSE <<>>)

\* C21: whenever the subgraph is empty (no expanded nodes and no edges), the
\* query list built by build_kg_guided_queries is exactly the one-element
\* list holding the original question, whatever the question analysis
\* contains.
C21_EmptySubgraphOnlyQuestion ==
    (pc = "built" /\ EmptySubgraph) => expanded_queries = <<question>>

\* C21 amended: on an empty subgraph the query list holds no entity-focused
\* and no relationship-focused query: it is the first max_queries entries of
\* the original question followed by the non-empty reformulations of the
\* analysis that differ from the earlier entries case-insensitively; it is the
\* question alone when max_queries >= 1 and there is no such reformulation.
C21_EmptySubgraphQuestionAndReformulations ==
    (pc = "built" /\ EmptySubgraph) =>
        LET qs == FirstOccurrences(<<question>> \o Reformulations(kg_result.question_analysis))
        IN  /\ IsPrefix(expanded_queries, qs)
            /\ Len(expanded_queries) = Min({Len(qs), max_queries})
            /\ (max_queries >= 1 /\ Len(qs) = 1) => expanded_queries = <<question>>

\* on an empty subgraph build_kg_guided_queries has returned the question and
\* a reformulation, after dropping a reformulation that repeats the question
\* in another letter case
C21_Witness ==
    /\ pc = "built"
    /\ EmptySubgraph
    /\ Len(expanded_queries) = 2
    /\ expanded_queries[1] = question
    /\ Len(Reformulations(kg_result.question_analysis)) = 2
    /\ max_queries = MaxQueries

(***************************************************************************)
(* The queue of expand_nodes                                               *)
(***************************************************************************)
DistinctSeeds == \A i, j \in DOMAIN seed_ids : seed_ids[i] = seed_ids[j] => i = j

\* the hop counts within which v is reached from S, edges followed in either
\* direction
HopsTo(Gr, S, v) == {h \in 0..Cardinality(GraphNodes) : v \in ReachWithin(Gr, S, h)}

\* the queue holds no node twice, and each node with the depth that is its
\* shortest distance to a seed
QueueDepthsMinimal ==
    /\ \A i, j \in DOMAIN bfs.q : bfs.q[i][1] = bfs.q[j][1] => i = j
    /\ \A i \in DOMAIN bfs.q :
          /\ bfs.q[i][1] \in bfs.seen
          /\ HopsTo(G, Range(seed_ids), bfs.q[i][1]) # {}
          /\ bfs.q[i][2] = Min(HopsTo(G, Range(seed_ids), bfs.q[i][1]))

\* the nodes a loop iteration appends to the queue were not seen before it
EnqueuedOnlyUnseen ==
    (pc = "loop" /\ bfs'.q # bfs.q) =>
        \A i \in Len(bfs.q)..Len(bfs'.q) : bfs'.q[i][1] \notin bfs.seen

\* C22: in expand_nodes with pairwise distinct seeds, no node is enqueued
\* more than once, and the depth recorded for a node when it is enqueued
\* equals its shortest distance to any seed, counting edges in either
\* direction.
C22_EnqueuedOnceAtMinimalDepth ==
    /\ []((pc \in {"loop", "done"} /\ DistinctSeeds) => QueueDepthsMinimal)
    /\ [][DistinctSeeds => EnqueuedOnlyUnseen]_vars

\* expand_nodes has returned after enqueuing a node that is one hop from one
\* seed and two hops from another
C22_Witness ==
    /\ pc = "done"
    /\ DistinctSeeds
    /\ Len(seed_ids) = 2
    /\ \E v \in bfs.seen \ Range(seed_ids) :
          /\ Min(HopsTo(G, Range(seed_ids), v)) = 1
          /\ \E s \in Range(seed_ids) : 1 \notin HopsTo(G, {s}, v) /\ 2 \in HopsTo(G, {s}, v)

(***************************************************************************)
(* The shape of the result of v2_hybrid_answer                             *)
(***************************************************************************)
\* the top-level fields of the structured result
ResultFields ==
    {"answer", "markdown", "sources", "stepback_intent", "expanded_question",
     "business_entities", "meta"}

\* C23: every result returned by v2_hybrid_answer, whether final, failed or
\* pending, has the same top-level fields: answer, markdown, sources,
\* stepback_intent, expanded_question, business_entities and meta.
C23_OneResultShape ==
    pc = "returned" => ResultFields \subseteq result.keys

(***************************************************************************)
(* Further claims about map_node_names_to_ids                              *)
(***************************************************************************)
\* the candidate is a key of the name index
InIndex(node_name) ==
    name_index # {} /\ \E x \in name_index : x.key = strip(lower(node_name))

\* C24: every identifier returned by map_node_names_to_ids is the identifier
\* of a node present in the node-data map, both for candidates resolved
\* through the name index and for candidates resolved by the fallback scan.
C24_ResolvedIdsInNodeTable ==
    pc = "resolved" => Range(seed_ids) \subseteq TableIds(by_id)

\* map_node_names_to_ids has resolved one candidate through the name index
\* and another by the fallback scan, with different identifiers
C24_Witness ==
    /\ pc = "resolved"
    /\ Len(seed_ids) = 2
    /\ \E i, j \in DOMAIN node_names :
          /\ InIndex(node_names[i])
          /\ ~InIndex(node_names[j])
          /\ ScanById(by_id, strip(lower(node_names[j]))) # <<>>
          /\ ResolveOne(node_names[i], by_id, name_index)
                # ResolveOne(node_names[j], by_id, name_index)

\* C25: in map_node_names_to_ids, two candidate names that differ only in
\* letter case, in leading or trailing whitespace, or in the length of runs
\* of internal whitespace resolve to the same set of node identifiers.
C25_NormalizedCandidatesResolveAlike ==
    (pc = "resolved" /\ Len(node_names) = 1) =>
        \A c \in CandidatePool :
            norm(c) = norm(node_names[1]) =>
                map_node_names_to_ids(<<c>>, by_id, name_index) = Range(seed_ids)

(***************************************************************************)
(* Completeness of expand_nodes                                            *)
(***************************************************************************)
\* C27: when the number of nodes within h hops of the seeds (edges followed
\* in either direction, seeds included) is smaller than max_expanded,
\* expand_nodes returns exactly that set of nodes: no node within the hop
\* limit is left out.
C27_AllWithinHopsWhenBudgetAllows ==
    (pc = "done" /\ Cardinality(ReachWithin(G, Range(seed_ids), hops)) < max_expanded) =>
        Range(expanded.expanded_node_ids) = ReachWithin(G, Range(seed_ids), hops)

\* expand_nodes has returned three nodes under a budget of four, one of them
\* two hops from the seed and reached against the direction of an edge
C27_Witness ==
    /\ pc = "done"
    /\ hops = 2
    /\ max_expanded = 4
    /\ Len(seed_ids) = 1
    /\ Cardinality(Range(expanded.expanded_node_ids)) = 3
    /\ Cardinality(ReachWithin(G, Range(seed_ids), 1)) = 2
    /\ \E e \in G : e.t \in ReachWithin(G, Range(seed_ids), 1)
                    /\ e.s \notin ReachWithin(G, Range(seed_ids), 1)

(***************************************************************************)
(* The edge-type allow-list of expand_nodes                                *)
(***************************************************************************)
\* the edges of the graph whose type is allow-listed
Allowed(Gr, wl) == {e \in Gr : ok_edge(e, wl)}

\* C28: when expand_nodes is given a non-empty edge-type allow-list,
\* expansion only follows allow-listed edges: every non-seed node in the
\* expanded result is joined to a seed by a path of at most h edges whose
\* types are all in the allow-list.
C28_OnlyAllowedEdgesFollowed ==
    (pc = "done" /\ edge_type_whitelist # {}) =>
        Range(expanded.expanded_node_ids)
            \subseteq ReachWithin(Allowed(G, edge_type_whitelist), Range(seed_ids), hops)

\* C28 amended: when expand_nodes is given a non-empty edge-type allow-list,
\* every edge record it returns has an allow-listed type and is an edge of the
\* graph; the allow-list does not restrict which neighbours are visited: every
\* non-seed node in the expanded result is joined to a seed by a path of at
\* most h edges of any type.
C28_OnlyAllowedEdgesReturned ==
    (pc = "done" /\ edge_type_whitelist # {}) =>
        /\ \A i \in DOMAIN expanded.edges :
              /\ expanded.edges[i].type \in edge_type_whitelist
              /\ \E e \in G : Triple(EdgeRecord(e)) = Triple(expanded.edges[i])
        /\ Range(expanded.expanded_node_ids) \subseteq ReachWithin(G, Range(seed_ids), hops)

\* under an allow-list expand_nodes has returned an allow-listed edge, has
\* left out an edge of another type, and has returned the node that only the
\* left-out edge joins to the seeds
C28_Witness ==
    /\ pc = "done"
    /\ edge_type_whitelist # {}
    /\ expanded.edges # <<>>
    /\ \E e \in G \ Allowed(G, edge_type_whitelist) :
          /\ \A i \in DOMAIN expanded.edges : Triple(expanded.edges[i]) # Triple(EdgeRecord(e))
          /\ \E v \in {e.s, e.t} :
                /\ v \in Range(expanded.expanded_node_ids)
                /\ v \notin ReachWithin(Allowed(G, edge_type_whitelist), Range(seed_ids), hops)

\* C30: for every raw citation list, the citations returned by
\* _normalize_citations have pairwise distinct ids, so that each inline
\* marker id listed in the appended Sources section maps to exactly one
\* source.
C30_CitationIdsDistinct ==
    pc # "normalize" =>
        \A i, j \in DOMAIN ret.normalized :
            ret.normalized[i].id = ret.normalized[j].id => i = j

\* ---------------------------------------------------------------------------
\* The task store and the background workers (api/task_store.py, api/main.py).
\* A request in async mode creates a task and submits it to the executor; a
\* worker runs _process_task_in_background; tasks are deleted by the delete
\* endpoint and by cleanup_old_tasks; every write that changed a row starts a
\* daemon thread that uploads the database file to GCS.
\* ---------------------------------------------------------------------------

MaxTasks == 2

\* _executor = ThreadPoolExecutor(max_workers=4, ...)
ExecutorWorkers == 4

\* task ids, numbered in the order of their creation (created_at)
TaskIds == 1..MaxTasks

STATUS_QUEUED == "queued"
STATUS_PROCESSING == "processing"
STATUS_COMPLETED == "completed"
STATUS_FAILED == "failed"

\* CREATE TABLE IF NOT EXISTS tasks: the table with no row
NoTasks == [t \in TaskIds |-> Absent]

\* the lock when no upload thread holds it
LockFree == [pc |-> "free", file |-> NoTasks]

\* the rows an UPDATE ... WHERE task_id = ? touches: cursor.rowcount > 0
RowExists(tbl, task_id) == tbl[task_id] # Absent

\* update_status with the status column written whether or not the row exists
update_status_upsert(tbl, task_id, status) == [tbl EXCEPT ![task_id] = status]

\* update_status: UPDATE tasks SET status = ? WHERE task_id = ?; commit
update_status(tbl, task_id, status) ==
    IF RowExists(tbl, task_id) THEN [tbl EXCEPT ![task_id] = status] ELSE tbl

\* _upload_to_gcs_async after a write: one more upload thread when the write
\* changed a row
Spawned(changed) == IF changed THEN upload_threads + 1 ELSE upload_threads

\* workers of the executor that are running a task
Running == {t \in TaskIds : worker[t] = "running"}

TInit ==
    /\ pc = "tasks"
    /\ db = NoTasks
    /\ gcs = [exists |-> FALSE, file |-> NoTasks]
    /\ upload_threads = 0
    /\ sync_lock = LockFree
    /\ worker = [t \in TaskIds |-> "none"]
    /\ by_id = <<>>
    /\ seed_ids = <<>>
    /\ trace = <<>>
    /\ ResolveUnused
    /\ ExpandUnused
    /\ QueryUnused
    /\ PipeUnused
    /\ CacheUnused
    /\ CallUnused

TaskUnchanged ==
    UNCHANGED <<pc, by_id, seed_ids, resolveVars, expandVars, queryVars, pipeVars, trace,
                cacheVars, callVars>>

\* answer (async mode): task_id = task_store.create_task(...): INSERT a row with
\* status queued, commit, _upload_to_gcs_async()
CreateTask ==
    /\ pc = "tasks"
    /\ \E t \in TaskIds :
          /\ worker[t] = "none"
          /\ \A u \in TaskIds : u < t => worker[u] # "none"
          /\ db' = [db EXCEPT ![t] = STATUS_QUEUED]
          /\ upload_threads' = Spawned(TRUE)
          /\ worker' = [worker EXCEPT ![t] = "created"]
    /\ UNCHANGED <<gcs, sync_lock>>
    /\ TaskUnchanged

\* answer (async mode): _executor.submit(_process_task_in_background, task_id, ...)
SubmitTask(t) ==
    /\ pc = "tasks"
    /\ worker[t] = "created"
    /\ worker' = [worker EXCEPT ![t] = "submitted"]
    /\ UNCHANGED <<db, gcs, upload_threads, sync_lock>>
    /\ TaskUnchanged

\* _process_task_in_background, picked up by a free worker of the executor:
\* task_store.update_status(task_id, STATUS_PROCESSING)
WorkerStart(t) ==
    /\ pc = "tasks"
    /\ worker[t] = "submitted"
    /\ Cardinality(Running) < ExecutorWorkers
    /\ db' = update_status(db, t, STATUS_PROCESSING)
    /\ upload_threads' = Spawned(RowExists(db, t))
    /\ worker' = [worker EXCEPT ![t] = "running"]
    /\ UNCHANGED <<gcs, sync_lock>>
    /\ TaskUnchanged

\* _process_task_in_background: agent.answer(question) returned;
\* task_store.update_status(task_id, STATUS_COMPLETED, result=result)
AgentReturns(t) ==
    /\ pc = "tasks"
    /\ worker[t] = "running"
    /\ db' = update_status(db, t, STATUS_COMPLETED)
    /\ upload_threads' = Spawned(RowExists(db, t))
    /\ worker' = [worker EXCEPT ![t] = "finished"]
    /\ UNCHANGED <<gcs, sync_lock>>
    /\ TaskUnchanged

\* _process_task_in_background: get_preset, get_agent or agent.answer raised;
\* except Exception: task_store.update_status(task_id, STATUS_FAILED, error=str(e))
AgentRaises(t) ==
    /\ pc = "tasks"
    /\ worker[t] = "running"
    /\ db' = update_status(db, t, STATUS_FAILED)
    /\ upload_threads' = Spawned(RowExists(db, t))
    /\ worker' = [worker EXCEPT ![t] = "finished"]
    /\ UNCHANGED <<gcs, sync_lock>>
    /\ TaskUnchanged

\* delete_task of a task that is stored: DELETE FROM tasks WHERE task_id = ?;
\* commit; _upload_to_gcs_async()  (a task that is not stored: nothing changes)
DeleteTask(t) ==
    /\ pc = "tasks"
    /\ RowExists(db, t)
    /\ db' = [db EXCEPT ![t] = Absent]
    /\ upload_threads' = Spawned(TRUE)
    /\ UNCHANGED <<gcs, sync_lock, worker>>
    /\ TaskUnchanged

\* cleanup_old_tasks: DELETE FROM tasks WHERE created_at < cutoff; commit;
\* _upload_to_gcs_async() when some row was deleted
CleanupOldTasks ==
    /\ pc = "tasks"
    /\ \E cutoff \in TaskIds :
          LET old == {t \in TaskIds : RowExists(db, t) /\ t <= cutoff}
          IN  /\ old # {}
              /\ db' = [t \in TaskIds |-> IF t \in old THEN Absent ELSE db[t]]
    /\ upload_threads' = Spawned(TRUE)
    /\ UNCHANGED <<gcs, sync_lock, worker>>
    /\ TaskUnchanged

\* _upload_to_gcs: self._sync_lock.acquire(blocking=False) succeeded
UploadAcquire ==
    /\ pc = "tasks"
    /\ upload_threads > 0
    /\ sync_lock.pc = "free"
    /\ upload_threads' = upload_threads - 1
    /\ sync_lock' = [pc |-> "acquired", file |-> NoTasks]
    /\ UNCHANGED <<db, gcs, worker>>
    /\ TaskUnchanged

\* _upload_to_gcs: if not self._sync_lock.acquire(blocking=False): return
UploadSkip ==
    /\ pc = "tasks"
    /\ upload_threads > 0
    /\ sync_lock.pc # "free"
    /\ upload_threads' = upload_threads - 1
    /\ UNCHANGED <<db, gcs, sync_lock, worker>>
    /\ TaskUnchanged

\* _upload_to_gcs: blob.upload_from_filename(self.db_path) reads the file
UploadRead ==
    /\ pc = "tasks"
    /\ sync_lock.pc = "acquired"
    /\ sync_lock' = [pc |-> "read", file |-> db]
    /\ UNCHANGED <<db, gcs, upload_threads, worker>>
    /\ TaskUnchanged

\* _upload_to_gcs: the upload completes; finally: self._sync_lock.release()
UploadDone ==
    /\ pc = "tasks"
    /\ sync_lock.pc = "read"
    /\ gcs' = [exists |-> TRUE, file |-> sync_lock.file]
    /\ sync_lock' = LockFree
    /\ UNCHANGED <<db, upload_threads, worker>>
    /\ TaskUnchanged

TNext ==
    \/ CreateTask
    \/ \E t \in TaskIds : SubmitTask(t)
    \/ \E t \in TaskIds : WorkerStart(t)
    \/ \E t \in TaskIds : AgentReturns(t)
    \/ \E t \in TaskIds : AgentRaises(t)
    \/ \E t \in TaskIds : DeleteTask(t)
    \/ CleanupOldTasks
    \/ UploadAcquire
    \/ UploadSkip
    \/ UploadRead
    \/ UploadDone

\* The process keeps running: a submitted task is picked up by a worker of the
\* executor, the agent call returns or raises, and a started thread runs.
TaskFairness ==
    /\ \A t \in TaskIds : WF_vars(SubmitTask(t))
    /\ \A t \in TaskIds : WF_vars(WorkerStart(t))
    /\ \A t \in TaskIds : WF_vars(AgentReturns(t) \/ AgentRaises(t))
    /\ WF_vars(UploadAcquire \/ UploadSkip)
    /\ WF_vars(UploadRead)
    /\ WF_vars(UploadDone)

SpecTasks == TInit /\ [][TNext]_vars /\ TaskFairness

\* C26: with GCS backup configured and no upload failing, once some task was
\* written and every upload thread has finished, the copy of the database in GCS
\* is the database as the last committed write left it.
C26_GcsReflectsLastWrite ==
    (pc = "tasks" /\ (\E t \in TaskIds : worker[t] # "none")
        /\ upload_threads = 0 /\ sync_lock.pc = "free")
       => (gcs.exists /\ gcs.file = db)

\* the status of task t changes only along queued -> processing -> completed or
\* failed; its row appears only at creation and disappears only by deletion
StatusStep(t) ==
    db'[t] # db[t] =>
        \/ db[t] = Absent /\ db'[t] = STATUS_QUEUED /\ worker[t] = "none"
        \/ db[t] = STATUS_QUEUED /\ db'[t] \in {STATUS_PROCESSING, Absent}
        \/ db[t] = STATUS_PROCESSING /\ db'[t] \in {STATUS_COMPLETED, STATUS_FAILED, Absent}
        \/ db[t] \in {STATUS_COMPLETED, STATUS_FAILED} /\ db'[t] = Absent

\* C29: for every task created by an asynchronous request, under any interleaving
\* of the workers with deletions, while the process keeps running and the agent
\* call returns or raises: the stored status moves from queued to processing and
\* then to completed or failed, the task eventually is completed or failed unless
\* it is deleted, and the worker never re-creates the row of a deleted task.
C29_TaskLifecycle ==
    /\ [][pc = "tasks" => \A t \in TaskIds : StatusStep(t)]_vars
    /\ \A t \in TaskIds :
          (pc = "tasks" /\ worker[t] = "created")
             ~> (db[t] \in {STATUS_COMPLETED, STATUS_FAILED, Absent})

\* one task went through to completed and its worker finished; another was
\* deleted and its worker is still running
C29_Witness ==
    /\ pc = "tasks"
    /\ \E t, u \in TaskIds :
          /\ worker[t] = "finished" /\ db[t] = STATUS_COMPLETED
          /\ worker[u] = "running" /\ db[u] = Absent

====
